---- MODULE Spec2Model ----
(***************************************************************************)
(* CardioVar data-access layer: the SQLite-backed TTL cache (api_cache.py), *)
(* the retry-decorated fetch functions with their static fallbacks         *)
(* (api_integrations.py) and the background job workers (api.py).          *)
(*                                                                         *)
(* Strings the code inspects character by character (cache keys, LIKE      *)
(* patterns) are sequences of one-character strings.  datetime.now() is an *)
(* integer number of hours.                                                *)
(***************************************************************************)
EXTENDS Integers, Sequences, FiniteSets, TLC

VARIABLES
    store,          \* rows of table api_cache: [cache_key, data, created_at, expires_at]
    now,            \* datetime.now(), in hours
    cache_ret,      \* what the last direct APICache call returned to its caller
    hist,           \* per key: the most recent set and whether the row was deleted since
    fallback_used,  \* api_integrations.fallback_used, the module-level flag
    stack,          \* the client thread's stack of running retry wrappers
    call,           \* the top-level fetch call in progress, or the last one made
    outcome,        \* what that call returned (or raised) to its caller
    trace,          \* what that call did so far: cache probes, live calls, fallback reads, sleeps
    calls,          \* number of top-level fetch calls made
    call0,          \* the cache rows and the flag when that call started
    BATCH_JOBS,     \* api.BATCH_JOBS: batch id -> job record
    workers,        \* the background task of each batch job: its locals and position
    SINGLE_JOBS,    \* api.SINGLE_JOBS: job id -> job record
    tasks,          \* the background task of each single job: its locals and position
    issued,         \* the ids the two submit endpoints have handed out so far
    poll_ret,       \* what the last status poll answered
    rw,             \* one run of a retry_on_failure wrapper around a scripted operation
    rl,             \* one rate_limit wrapper and the thread calling through it
    rlt,            \* one rate_limit wrapper and the pool threads calling through it
    cw,             \* one APICache written by a client that sets keys again and again
    lf,             \* the rate-limited fetch functions and the thread calling them
    wa,             \* one input handed to the single worker and to the batch worker
    vi              \* the requests running compute_variant_impact side by side

----------------------------------------------------------------------------
(* Bounds of the model. *)

\* The clock stops advancing once it has reached MaxTime hours.
MaxTime == 26

\* The client makes at most MaxCalls top-level fetch calls.
MaxCalls == 2

\* At most MaxJobs batch jobs are submitted, each of at most MaxBatch variants.
MaxJobs == 1
MaxBatch == 3

----------------------------------------------------------------------------
(* Python values and their JSON text (json.dumps / json.loads). *)

\* A Python value: its type and a payload naming which value it is.
PyVal(t, v) == [t |-> t, v |-> v]
PyNone == PyVal("NoneType", "None")

\* json.dumps: the JSON text of a Python value, as JSON type and payload.
\* None becomes null; lists and tuples both become arrays.
json_dumps(x) ==
    [j |-> CASE x.t = "NoneType" -> "null"
             [] x.t = "float"    -> "number"
             [] x.t = "str"      -> "string"
             [] x.t = "dict"     -> "object"
             [] x.t = "list"     -> "array"
             [] x.t = "tuple"    -> "array",
     v |-> x.v]

\* json.loads: null becomes None, an array always becomes a list.
json_loads(s) ==
    [t |-> CASE s.j = "null"   -> "NoneType"
             [] s.j = "number" -> "float"
             [] s.j = "string" -> "str"
             [] s.j = "object" -> "dict"
             [] s.j = "array"  -> "list",
     v |-> s.v]

----------------------------------------------------------------------------
(* Cache keys: f"<prefix>:<args>" as character sequences. *)

Colon == <<":">>

\* Arguments the callers pass, already formatted as they appear in the key.
Variant1 == <<"1", ":", "1", "0", "0", ":", "A", ":", "T">>
Variant2 == <<"1", ":", "2", "0", "0", ":", "A", ":", "T">>
Gene1    == <<"T", "T", "N">>
Gene2    == <<"X", "Y", "Z">>

PrefixGnomad      == <<"g", "n", "o", "m", "a", "d">>
PrefixEnsemblGene == <<"e", "n", "s", "e", "m", "b", "l", "_", "g", "e", "n", "e">>

\* The keys the direct cache operations are exercised on.
CacheKeys ==
    { PrefixGnomad \o Colon \o Variant1,
      PrefixGnomad \o Colon \o Variant2,
      PrefixEnsemblGene \o Colon \o Gene1 }

\* LIKE patterns handed to invalidate_pattern.
LikePatterns ==
    { <<"g", "n", "o", "m", "a", "d", ":", "%">>,
      <<"G", "N", "O", "M", "A", "D", ":", "%">>,
      <<"%", "2", "0", "0", "%">>,
      <<"e", "n", "s", "e", "m", "b", "l", "_", "g", "e", "n", "e", ":", "T", "T", "_">>,
      <<"g", "n", "o", "m", "a", "d">> }

\* SQLite folds ASCII upper case to lower case when LIKE compares characters.
Lower(c) ==
    CASE c = "G" -> "g" [] c = "N" -> "n" [] c = "O" -> "o" [] c = "M" -> "m"
      [] c = "A" -> "a" [] c = "D" -> "d" [] c = "T" -> "t" [] c = "X" -> "x"
      [] c = "Y" -> "y" [] c = "Z" -> "z" [] OTHER -> c

\* A comparison that takes the pattern for a plain key.
LikeExact(p, s) == p = s

\* SQLite's LIKE: % matches any run of characters, _ exactly one character,
\* any other character matches itself case-insensitively.
RECURSIVE Like(_, _)
Like(p, s) ==
    IF p = <<>> THEN s = <<>>
    ELSE IF Head(p) = "%"
         THEN Like(Tail(p), s) \/ (s /= <<>> /\ Like(p, Tail(s)))
    ELSE IF s = <<>> THEN FALSE
    ELSE IF Head(p) = "_" THEN Like(Tail(p), Tail(s))
    ELSE Lower(Head(p)) = Lower(Head(s)) /\ Like(Tail(p), Tail(s))

----------------------------------------------------------------------------
(* APICache (api_cache.py). *)

\* cache = APICache(db_path="data/api_cache.db", default_ttl_hours=24)
default_ttl_hours == 24

\* ttl_hours=None: the argument is omitted.
NoTTL == -1

\* Explicit ttl_hours arguments exercised besides the default.
TTLArgs == {NoTTL, 12}

\* Clock advances between operations, in hours.
ClockSteps == {12, 13}

\* CREATE TABLE api_cache (cache_key TEXT PRIMARY KEY, ...): the rows with a key.
RowsOf(rows, key) == {r \in rows : r.cache_key = key}

\* cursor.fetchone() after SELECT ... WHERE cache_key = ?
NoRow == [cache_key |-> <<>>, data |-> json_dumps(PyNone), created_at |-> -1, expires_at |-> -1]
fetchone(rows, key) ==
    IF RowsOf(rows, key) = {} THEN NoRow ELSE CHOOSE r \in RowsOf(rows, key) : TRUE

\* APICache.get without the expiry test.
cache_get_never_expires(rows, t, key) ==
    LET result == fetchone(rows, key) IN
    IF result = NoRow THEN PyNone ELSE json_loads(result.data)

\* APICache.get: None when there is no row or datetime.now() > expires_at,
\* else json.loads of the stored text.
cache_get(rows, t, key) ==
    LET result == fetchone(rows, key) IN
    IF result = NoRow THEN PyNone
    ELSE IF t > result.expires_at THEN PyNone
    ELSE json_loads(result.data)

\* INSERT OR IGNORE: a row with the same primary key stays as it is.
InsertOrIgnore(rows, row) ==
    IF RowsOf(rows, row.cache_key) = {} THEN rows \cup {row} ELSE rows

\* INSERT OR REPLACE: a row with the same primary key is deleted first.
InsertOrReplace(rows, row) ==
    (rows \ RowsOf(rows, row.cache_key)) \cup {row}

\* APICache.set that stamps expires_at with the time of the write.
cache_set_without_ttl(rows, t, key, data, ttl_hours) ==
    InsertOrReplace(rows, [cache_key |-> key, data |-> json_dumps(data),
                           created_at |-> t, expires_at |-> t])

\* APICache.set: ttl = ttl_hours if given else default; expires_at = now + ttl.
cache_set(rows, t, key, data, ttl_hours) ==
    LET ttl == IF ttl_hours /= NoTTL THEN ttl_hours ELSE default_ttl_hours
        created_at == t
        expires_at == created_at + ttl
    IN InsertOrReplace(rows, [cache_key |-> key, data |-> json_dumps(data),
                              created_at |-> created_at, expires_at |-> expires_at])

\* A clear_expired that also deletes the rows expiring this very hour.
cache_clear_expired_at_boundary(rows, t) == {r \in rows : ~(r.expires_at <= t)}

\* APICache.clear_expired: DELETE ... WHERE expires_at < now.
cache_clear_expired(rows, t) == {r \in rows : ~(r.expires_at < t)}

\* An invalidate that empties the table.
cache_invalidate_clears_table(rows, key) == {}

\* APICache.invalidate: DELETE ... WHERE cache_key = ?
cache_invalidate(rows, key) == {r \in rows : r.cache_key /= key}

\* APICache.invalidate_pattern: DELETE ... WHERE cache_key LIKE ?
cache_invalidate_pattern(rows, pattern) == {r \in rows : ~Like(pattern, r.cache_key)}

----------------------------------------------------------------------------
(* Direct cache operations, as the admin endpoint and tests drive them. *)

fetchVars == <<fallback_used, stack, call, outcome, trace, calls, call0>>
threadVars == <<rlt, vi, cw, lf, wa>>
utilVars == <<rw, rl, threadVars>>
sideVars == <<SINGLE_JOBS, tasks, poll_ret, utilVars>>
jobVars == <<BATCH_JOBS, workers, issued, sideVars>>

\* Values the direct operations store.
CacheValues == {PyVal("float", "v1"), PyVal("dict", "v2")}

NoHist == [set |-> FALSE, v |-> PyNone, t |-> 0, ttl |-> 0, deleted |-> FALSE]

\* A row that was there and is gone was deleted by the operation; what the
\* deleted set had written no longer matters.
HistAfterDelete(rows2) ==
    [k \in CacheKeys |->
        IF RowsOf(store, k) /= {} /\ RowsOf(rows2, k) = {}
        THEN [NoHist EXCEPT !.deleted = TRUE] ELSE hist[k]]

CacheRet(op, arg, value, n) == [op |-> op, arg |-> arg, value |-> value, n |-> n]

CacheSet(key, data, ttl_hours) ==
    /\ store' = cache_set(store, now, key, data, ttl_hours)
    /\ hist' = [hist EXCEPT ![key] =
                  [set |-> TRUE, v |-> data, t |-> now,
                   ttl |-> IF ttl_hours /= NoTTL THEN ttl_hours ELSE default_ttl_hours,
                   deleted |-> FALSE]]
    /\ cache_ret' = CacheRet("set", <<>>, PyNone, 0)
    /\ UNCHANGED <<now, fetchVars, jobVars>>

CacheGet(key) ==
    /\ cache_ret' = CacheRet("get", key, cache_get(store, now, key), 0)
    /\ UNCHANGED <<store, now, hist, fetchVars, jobVars>>

CacheInvalidate(key) ==
    /\ store' = cache_invalidate(store, key)
    /\ hist' = HistAfterDelete(store')
    /\ cache_ret' = CacheRet("invalidate", key, PyNone, 0)
    /\ UNCHANGED <<now, fetchVars, jobVars>>

\* invalidate_pattern counts the deleted rows for its log line and returns
\* nothing.
CacheInvalidatePattern(pattern) ==
    /\ store' = cache_invalidate_pattern(store, pattern)
    /\ hist' = HistAfterDelete(store')
    /\ cache_ret' = CacheRet("invalidate_pattern", pattern, PyNone, 0)
    /\ UNCHANGED <<now, fetchVars, jobVars>>

\* clear_expired returns cursor.rowcount.
CacheClearExpired ==
    /\ store' = cache_clear_expired(store, now)
    /\ hist' = HistAfterDelete(store')
    /\ cache_ret' = CacheRet("clear_expired", <<>>, PyVal("int", "rowcount"),
                             Cardinality(store) - Cardinality(store'))
    /\ UNCHANGED <<now, fetchVars, jobVars>>

CacheClearAll ==
    /\ store' = {}
    /\ hist' = HistAfterDelete(store')
    /\ cache_ret' = CacheRet("clear_all", <<>>, PyNone, 0)
    /\ UNCHANGED <<now, fetchVars, jobVars>>

\* Time passes.
Tick(d) ==
    /\ now + d <= MaxTime
    /\ now' = now + d
    /\ UNCHANGED <<store, cache_ret, hist, fetchVars, jobVars>>

----------------------------------------------------------------------------
(* The fetch functions of api_integrations.py. *)

FetchFns ==
    { "fetch_protein_domains", "fetch_gnomad_frequency", "fetch_ensembl_gene",
      "fetch_gnomad_gene", "fetch_ucsc_phylop", "fetch_gtex_expression",
      "fetch_genomic_sequence", "fetch_gene_structure",
      "fetch_clinvar_variants", "fetch_dbsnp_variants" }

\* Functions called with a gene symbol; the others take a variant or region.
GeneFns ==
    { "fetch_protein_domains", "fetch_ensembl_gene", "fetch_gnomad_gene",
      "fetch_gtex_expression" }

ArgsOf(fn) == IF fn \in GeneFns THEN {Gene1, Gene2} ELSE {Variant1, Variant2}

\* @retry_on_failure(retries=..., backoff=...) on each function.
retries(fn) == IF fn = "fetch_gnomad_gene" THEN 2 ELSE 3

\* backoff as a fraction: 2.0 = 2/1, 1.5 = 3/2.
backoff_num(fn) == IF fn = "fetch_gnomad_gene" THEN 3 ELSE 2
backoff_den(fn) == IF fn = "fetch_gnomad_gene" THEN 2 ELSE 1

\* Sleep lengths are kept in quarter seconds, which holds 1.5 * 1.5 exactly.
QuartersPerSecond == 4

\* cache_key = f"<prefix>:..." in each function.
cache_prefix(fn) ==
    CASE fn = "fetch_protein_domains"  -> <<"p","r","o","t","e","i","n","_","d","o","m","a","i","n","s">>
      [] fn = "fetch_gnomad_frequency" -> PrefixGnomad
      [] fn = "fetch_ensembl_gene"     -> PrefixEnsemblGene
      [] fn = "fetch_gnomad_gene"      -> <<"g","n","o","m","a","d","_","g","e","n","e">>
      [] fn = "fetch_ucsc_phylop"      -> <<"p","h","y","l","o","p">>
      [] fn = "fetch_gtex_expression"  -> <<"g","t","e","x">>
      [] fn = "fetch_genomic_sequence" -> <<"s","e","q","u","e","n","c","e">>
      [] fn = "fetch_gene_structure"   -> <<"g","e","n","e","_","s","t","r","u","c","t","u","r","e">>
      [] fn = "fetch_clinvar_variants" -> <<"c","l","i","n","v","a","r">>
      [] fn = "fetch_dbsnp_variants"   -> <<"d","b","s","n","p">>

cache_key(fn, arg) == cache_prefix(fn) \o Colon \o arg

\* The Python type of the value each function returns on success.
value_type(fn) ==
    CASE fn = "fetch_gnomad_frequency" -> "float"
      [] fn = "fetch_genomic_sequence" -> "str"
      [] fn \in {"fetch_ucsc_phylop", "fetch_gtex_expression", "fetch_gene_structure"} -> "list"
      [] OTHER -> "dict"

\* What one live HTTP exchange can bring: one of two usable payloads, a 200
\* answer without usable data, or an error (exception, non-200 status,
\* malformed body).
LiveOutcomes == {"live1", "live2", "empty", "error"}

\* A 200 answer of gnomAD's variant endpoint or Ensembl's lookup always
\* yields a value; for the other upstreams it can be empty.
LiveOutcomesOf(fn) ==
    IF fn \in {"fetch_gnomad_frequency", "fetch_ensembl_gene"}
    THEN LiveOutcomes \ {"empty"} ELSE LiveOutcomes

EmptyStr  == PyVal("str", "")
EmptyList == PyVal("list", "[]")

\* The value the function's try block returns for a live outcome, None when
\* it returns nothing there (falls through to the code after the try).
\* fetch_genomic_sequence and fetch_gene_structure return and cache an empty
\* 200 answer ("" and []); the others skip it.
LiveResult(fn, out) ==
    CASE out \in {"live1", "live2"} -> PyVal(value_type(fn), out)
      [] out = "empty" /\ fn = "fetch_genomic_sequence" -> EmptyStr
      [] out = "empty" /\ fn = "fetch_gene_structure" -> EmptyList
      [] OTHER -> PyNone

\* fetch_clinvar_variants returns None from inside its try block when the
\* search finds no ids or no matching variant.
ReturnsNoneInTry(fn, out) == fn = "fetch_clinvar_variants" /\ out = "empty"

\* The result on the failure paths: [] for fetch_gene_structure, "" for
\* fetch_genomic_sequence, None for the others.
FailureResult(fn) ==
    CASE fn = "fetch_gene_structure" -> EmptyList
      [] fn = "fetch_genomic_sequence" -> EmptyStr
      [] OTHER -> PyNone

\* Functions with a static fallback dataset under data/.
DatasetFns ==
    { "fetch_protein_domains", "fetch_gnomad_frequency", "fetch_ensembl_gene",
      "fetch_ucsc_phylop", "fetch_gtex_expression", "fetch_gene_structure" }

\* Functions whose fallback lookup, cache.set included, sits inside a try.
FallbackInTry ==
    { "fetch_protein_domains", "fetch_ucsc_phylop", "fetch_gtex_expression",
      "fetch_gene_structure" }

\* The identities the files under data/ hold an entry for.
DatasetEntries == {Gene1, Variant1}

\* A lookup that opens a file that is not there and so finds nothing.
FallbackLookupWrongFile(fn, arg) == PyNone

\* The lookup in the function's fallback file: the entry's value, None when
\* the function has no file or the file has no matching entry.
FallbackLookup(fn, arg) ==
    IF fn \in DatasetFns /\ arg \in DatasetEntries
    THEN PyVal(value_type(fn), "fallback") ELSE PyNone

\* One entry of the trace.
Ev(e, fn) == [e |-> e, fn |-> fn, delay |-> 0]

\* Whether the backing store fails during an attempt: not at all, on
\* cache.get, or on every cache.set.
StoreFaults == {"none", "get", "set"}

\* Handlers that catch nothing.
CatchesNothing(exc) == FALSE

\* except Exception as e: the handler of the wrapper and of every try block
\* in the fetch functions catches whatever is raised.
CatchesException(exc) == TRUE

\* A body whose successful cache or live answer puts the flag back to False.
BodyOutSuccessClearsFlag(kind, v, rows, flag, ev) ==
    [kind |-> kind, v |-> v, rows |-> rows,
     flag |-> flag /\ \A i \in DOMAIN ev : ev[i].e \notin {"cache_hit", "live_ok"},
     ev |-> ev]

\* What one execution of a body leaves behind: how it ended, its value, the
\* cache rows, the flag as the body's assignments left it, and its events.
BodyOut(kind, v, rows, flag, ev) ==
    [kind |-> kind, v |-> v, rows |-> rows, flag |-> flag, ev |-> ev]

\* A function body without the force_live return.
StopsNever(fn, force_live) == FALSE

\* if force_live: ... return None -- every function but
\* fetch_genomic_sequence, which never reads its force_live argument.
StopsAtForceLive(fn, force_live) == force_live /\ fn /= "fetch_genomic_sequence"

\* Code after the live try block that caches the failure result it is
\* about to return, so that the next call does not ask again.
AfterLiveCachesFailure(fn, arg, force_live, fault, rows, t, ev) ==
    IF fn = "fetch_gnomad_gene" /\ ~force_live
    THEN BodyOut("chain", PyNone, rows, fallback_used, ev)
    ELSE BodyOut("value", FailureResult(fn),
                 cache_set(rows, t, cache_key(fn, arg), FailureResult(fn), NoTTL), TRUE,
                 ev \o <<Ev("cache_set", fn)>>)

\* The code after the live try block: the force_live return, the static
\* fallback (or the call of fetch_ensembl_gene), the final return.  Every
\* path but the call of fetch_ensembl_gene sets fallback_used.
AfterLive(fn, arg, force_live, fault, rows, t, ev) ==
    LET fb == FallbackLookup(fn, arg) IN
    IF fn = "fetch_genomic_sequence"
    THEN BodyOut("value", EmptyStr, rows, TRUE, ev)
    ELSE IF StopsAtForceLive(fn, force_live)
    THEN BodyOut("value", FailureResult(fn), rows, TRUE, ev)
    ELSE IF fn = "fetch_gnomad_gene"
    THEN BodyOut("chain", PyNone, rows, fallback_used, ev)
    ELSE IF fn \notin DatasetFns
    THEN BodyOut("value", PyNone, rows, TRUE, ev)
    ELSE IF fb = PyNone
    THEN BodyOut("value", FailureResult(fn), rows, TRUE, ev \o <<Ev("fallback_read", fn)>>)
    ELSE IF fault /= "set"
    THEN BodyOut("value", fb, cache_set(rows, t, cache_key(fn, arg), fb, NoTTL), TRUE,
                 ev \o <<Ev("fallback_read", fn), Ev("cache_set", fn)>>)
    ELSE IF fn \in FallbackInTry /\ CatchesException("sqlite3.OperationalError")
    THEN BodyOut("value", FailureResult(fn), rows, TRUE,
                 ev \o <<Ev("fallback_read", fn), Ev("store_error", fn)>>)
    ELSE BodyOut("raise", PyNone, rows, TRUE,
                 ev \o <<Ev("fallback_read", fn), Ev("store_error", fn)>>)

\* A probe that force_live skips.
CacheProbeSkippedOnForceLive(fn, arg, force_live, rows, t) ==
    IF force_live THEN PyNone ELSE cache_get(rows, t, cache_key(fn, arg))

\* cached = cache.get(cache_key), the first statement of every function.
CacheProbe(fn, arg, force_live, rows, t) == cache_get(rows, t, cache_key(fn, arg))

\* One execution of a decorated function's body: cache probe, live call,
\* then AfterLive.  out is what the upstream does if it is called.
Body(fn, arg, force_live, out, fault, rows, t) ==
    LET key    == cache_key(fn, arg)
        cached == CacheProbe(fn, arg, force_live, rows, t)
        live   == LiveResult(fn, out)
    IN
    IF fault = "get"
    THEN BodyOut("raise", PyNone, rows, fallback_used, <<Ev("store_error", fn)>>)
    ELSE IF cached /= PyNone
    THEN BodyOut("value", cached, rows, fallback_used, <<Ev("cache_hit", fn)>>)
    ELSE IF live /= PyNone /\ fault /= "set"
    THEN BodyOut("value", live, cache_set(rows, t, key, live, NoTTL), fallback_used,
                 <<Ev("cache_miss", fn), Ev("live_ok", fn), Ev("cache_set", fn)>>)
    ELSE IF live /= PyNone
    THEN IF CatchesException("sqlite3.OperationalError")
         THEN AfterLive(fn, arg, force_live, fault, rows, t,
                        <<Ev("cache_miss", fn), Ev("live_ok", fn), Ev("store_error", fn)>>)
         ELSE BodyOut("raise", PyNone, rows, fallback_used,
                      <<Ev("cache_miss", fn), Ev("live_ok", fn), Ev("store_error", fn)>>)
    ELSE IF ReturnsNoneInTry(fn, out)
    THEN BodyOut("value", PyNone, rows, fallback_used,
                 <<Ev("cache_miss", fn), Ev("live_fail", fn)>>)
    ELSE IF out = "error" /\ ~CatchesException("requests.RequestException")
    THEN BodyOut("raise", PyNone, rows, fallback_used,
                 <<Ev("cache_miss", fn), Ev("live_fail", fn)>>)
    ELSE AfterLive(fn, arg, force_live, fault, rows, t,
                   <<Ev("cache_miss", fn), Ev("live_fail", fn)>>)

----------------------------------------------------------------------------
(* retry_on_failure: the wrapper around each fetch function. *)

\* A running wrapper: its arguments, the loop variables attempt and delay,
\* and where it stands: about to call func ("attempt"), in time.sleep
\* ("sleep"), or inside func waiting for fetch_ensembl_gene ("chain").
NewFrame(fn, arg, force_live) ==
    [fn |-> fn, arg |-> arg, force_live |-> force_live, attempt |-> 0,
     delay |-> (backoff_num(fn) * QuartersPerSecond) \div backoff_den(fn),
     pc |-> "attempt"]

Top(stk) == stk[Len(stk)]
Pop(stk) == SubSeq(stk, 1, Len(stk) - 1)

NoResult  == [kind |-> "pending", v |-> PyNone]
Returned(v) == [kind |-> "value", v |-> v]
Raised == [kind |-> "raise", v |-> PyNone]

\* A loop that sleeps and goes round once more after its last pass.
WrapperNextOneMore(attempt, n, o) ==
    IF o.kind = "value" /\ o.v /= PyNone THEN "return"
    ELSE IF attempt < n THEN "sleep"
    ELSE "exhausted"

\* What the wrapper's loop does after func returned or raised in pass
\* attempt of range(n): return the result if it is not None; else (None, or
\* an exception the handler caught) sleep if attempt < n - 1, and fall out
\* of the loop to return None if not.
WrapperNext(attempt, n, o) ==
    IF o.kind = "value" /\ o.v /= PyNone THEN "return"
    ELSE IF o.kind = "raise" /\ ~CatchesException("Exception") THEN "raise"
    ELSE IF attempt < n - 1 THEN "sleep"
    ELSE "exhausted"

\* The wrapper's loop after func returned v or raised: a result that is not
\* None is returned at once; after None or a caught exception the wrapper
\* sleeps if attempts remain and returns None if not.  A wrapper that ends
\* hands its result to the function that called it (fetch_gnomad_gene
\* returns what fetch_ensembl_gene returned), or to the client.
RECURSIVE AfterFunc(_, _)
AfterFunc(stk, o) ==
    LET f == Top(stk)
        rest == Pop(stk)
        Leave(r) == IF rest = <<>> \/ r.kind = "raise"
                    THEN [stack |-> IF r.kind = "raise" THEN <<>> ELSE rest, outcome |-> r]
                    ELSE AfterFunc(rest, r)
        next == WrapperNext(f.attempt, retries(f.fn), o)
    IN
    CASE next = "return" -> Leave(Returned(o.v))
      [] next = "raise" -> Leave(Raised)
      [] next = "sleep" -> [stack |-> rest \o <<[f EXCEPT !.pc = "sleep"]>>, outcome |-> NoResult]
      [] next = "exhausted" -> Leave(Returned(PyNone))

----------------------------------------------------------------------------
(* The client thread: fetch calls, one attempt or sleep per step. *)

NoCall == [fn |-> "none", arg |-> <<>>, force_live |-> FALSE]

\* reset_fallback_flag()
ResetFallbackFlag ==
    /\ stack = <<>>
    /\ fallback_used' = FALSE
    /\ UNCHANGED <<store, now, cache_ret, hist, stack, call, outcome, trace, calls, call0, jobVars>>

\* The cache rows a call can read or write: its own, and for
\* fetch_gnomad_gene also the row of fetch_ensembl_gene, which it calls.
RowsTouched(fn, arg) ==
    {cache_key(fn, arg)} \cup
    (IF fn = "fetch_gnomad_gene" THEN {cache_key("fetch_ensembl_gene", arg)} ELSE {})

\* The client calls fetch_*(arg, force_live=...).  Calls on disjoint cache
\* rows cannot affect each other's rows, so the calls of a run are kept on
\* rows that the call before them touched.
Call(fn, arg, force_live) ==
    /\ stack = <<>>
    /\ calls < MaxCalls
    /\ IF call = NoCall THEN TRUE
       ELSE RowsTouched(fn, arg) \cap RowsTouched(call.fn, call.arg) /= {}
    /\ stack' = <<NewFrame(fn, arg, force_live)>>
    /\ call' = [fn |-> fn, arg |-> arg, force_live |-> force_live]
    /\ outcome' = NoResult
    /\ trace' = <<>>
    /\ calls' = calls + 1
    /\ call0' = [rows |-> store, flag |-> fallback_used]
    /\ UNCHANGED <<store, now, cache_ret, hist, fallback_used, jobVars>>

\* The innermost wrapper calls func once; the upstream answers out and the
\* backing store behaves as fault says.
Attempt(out, fault) ==
    /\ stack /= <<>>
    /\ Top(stack).pc = "attempt"
    /\ out \in LiveOutcomesOf(Top(stack).fn)
    /\ LET f == Top(stack)
           b == Body(f.fn, f.arg, f.force_live, out, fault, store, now)
           next == IF b.kind = "chain"
                   THEN [stack |-> Pop(stack)
                                   \o <<[f EXCEPT !.pc = "chain"],
                                        NewFrame("fetch_ensembl_gene", f.arg, FALSE)>>,
                         outcome |-> NoResult]
                   ELSE AfterFunc(stack, [kind |-> b.kind, v |-> b.v])
       IN /\ store' = b.rows
          /\ fallback_used' = b.flag
          /\ trace' = trace \o b.ev
          /\ stack' = next.stack
          /\ outcome' = next.outcome
    /\ UNCHANGED <<now, cache_ret, hist, call, calls, call0, jobVars>>

\* time.sleep(delay) returns; delay *= backoff; the loop goes on.
Sleep ==
    /\ stack /= <<>>
    /\ Top(stack).pc = "sleep"
    /\ LET f == Top(stack) IN
       /\ trace' = Append(trace, [Ev("sleep", f.fn) EXCEPT !.delay = f.delay])
       /\ stack' = Pop(stack) \o
                   <<[f EXCEPT !.pc = "attempt", !.attempt = f.attempt + 1,
                               !.delay = (f.delay * backoff_num(f.fn)) \div backoff_den(f.fn)]>>
    /\ UNCHANGED <<store, now, cache_ret, hist, fallback_used, call, outcome, calls, call0, jobVars>>

----------------------------------------------------------------------------
(* Batch jobs (api.py): start_batch, process_batch_task, get_batch_status. *)

\* str(uuid.uuid4()): the n-th id handed out.
JobIds == 1..MaxJobs

\* The variants a batch request can hold.
BatchItems == {Variant1, Variant2}

RECURSIVE SeqsUpTo(_, _)
SeqsUpTo(S, n) ==
    IF n = 0 THEN {<<>>}
    ELSE LET shorter == SeqsUpTo(S, n - 1)
         IN shorter \cup {Append(q, x) : q \in {p \in shorter : Len(p) = n - 1}, x \in S}

BatchRequests == SeqsUpTo(BatchItems, MaxBatch)

NoJob == [status |-> "absent", total |-> 0, processed |-> 0, results |-> <<>>, error |-> ""]
NoWorker == [pc |-> "none", variants |-> <<>>, i |-> 0, results |-> <<>>, raised |-> <<>>]

Issued == {b \in JobIds : BATCH_JOBS[b] /= NoJob}

\* POST /batch-start: the record is created pending and the task scheduled.
start_batch(variants) ==
    /\ Cardinality(Issued) < MaxJobs
    /\ LET batch_id == Cardinality(Issued) + 1 IN
       /\ BATCH_JOBS' = [BATCH_JOBS EXCEPT ![batch_id] =
                           [status |-> "pending", total |-> Len(variants),
                            processed |-> 0, results |-> <<>>, error |-> ""]]
       /\ issued' = [issued EXCEPT !.batch = @ \cup {batch_id}]
       /\ workers' = [workers EXCEPT ![batch_id] =
                        [pc |-> "start", variants |-> variants, i |-> 0,
                         results |-> <<>>, raised |-> <<>>]]
    /\ UNCHANGED <<store, now, cache_ret, hist, fetchVars, sideVars>>

\* BATCH_JOBS[batch_id]["status"] = "processing"; results = []
BatchBegin(b) ==
    /\ workers[b].pc = "start"
    /\ BATCH_JOBS' = [BATCH_JOBS EXCEPT ![b].status = "processing"]
    /\ workers' = [workers EXCEPT ![b].pc = "loop", ![b].results = <<>>]
    /\ UNCHANGED <<store, now, cache_ret, hist, fetchVars, issued, sideVars>>

\* The entry appended for a variant: the success entry after
\* compute_variant_impact returned, the failed entry with str(e) after it
\* (or the reading of its result) raised.
ItemEntry(v, raises) ==
    IF raises
    THEN [variant_id |-> v, status |-> "failed", error |-> "str(e)"]
    ELSE [variant_id |-> v, status |-> "success", error |-> ""]

\* The loop without its inner try: a raising item reaches the outer handler,
\* which marks the job failed and ends the task.
BatchItemNoInnerTry(b, raises) ==
    /\ workers[b].pc = "loop"
    /\ workers[b].i < Len(workers[b].variants)
    /\ LET w == workers[b]
           v == w.variants[w.i + 1]
       IN IF raises
          THEN /\ workers' = [workers EXCEPT ![b].pc = "done",
                                             ![b].raised = Append(w.raised, raises)]
               /\ BATCH_JOBS' = [BATCH_JOBS EXCEPT ![b].status = "failed",
                                                   ![b].error = "str(e)"]
          ELSE /\ workers' = [workers EXCEPT ![b].results = Append(w.results, ItemEntry(v, raises)),
                                             ![b].raised = Append(w.raised, raises),
                                             ![b].i = w.i + 1]
               /\ BATCH_JOBS' = [BATCH_JOBS EXCEPT ![b].processed = w.i + 1]
    /\ UNCHANGED <<store, now, cache_ret, hist, fetchVars, issued, sideVars>>

\* A loop that writes the number of items still to do into processed.
BatchItemCountsRemaining(b, raises) ==
    /\ workers[b].pc = "loop"
    /\ workers[b].i < Len(workers[b].variants)
    /\ LET w == workers[b]
           v == w.variants[w.i + 1]
       IN /\ workers' = [workers EXCEPT ![b].results = Append(w.results, ItemEntry(v, raises)),
                                        ![b].raised = Append(w.raised, raises),
                                        ![b].i = w.i + 1]
          /\ BATCH_JOBS' = [BATCH_JOBS EXCEPT ![b].processed = Len(w.variants) - w.i]
    /\ UNCHANGED <<store, now, cache_ret, hist, fetchVars, issued, sideVars>>

\* One pass of the for loop: compute_variant_impact returns or raises, the
\* entry is appended to the local list, processed becomes i + 1.
BatchItem(b, raises) ==
    /\ workers[b].pc = "loop"
    /\ workers[b].i < Len(workers[b].variants)
    /\ LET w == workers[b]
           v == w.variants[w.i + 1]
       IN /\ workers' = [workers EXCEPT ![b].results = Append(w.results, ItemEntry(v, raises)),
                                        ![b].raised = Append(w.raised, raises),
                                        ![b].i = w.i + 1]
          /\ BATCH_JOBS' = [BATCH_JOBS EXCEPT ![b].processed = w.i + 1]
    /\ UNCHANGED <<store, now, cache_ret, hist, fetchVars, issued, sideVars>>

\* After the loop: BATCH_JOBS[batch_id]["results"] = results
BatchStoreResults(b) ==
    /\ workers[b].pc = "loop"
    /\ workers[b].i = Len(workers[b].variants)
    /\ BATCH_JOBS' = [BATCH_JOBS EXCEPT ![b].results = workers[b].results]
    /\ workers' = [workers EXCEPT ![b].pc = "finish"]
    /\ UNCHANGED <<store, now, cache_ret, hist, fetchVars, issued, sideVars>>

\* A task that ends without writing the final status.
BatchCompleteLeavesStatus(b) ==
    /\ workers[b].pc = "finish"
    /\ workers' = [workers EXCEPT ![b].pc = "done"]
    /\ UNCHANGED <<store, now, cache_ret, hist, fetchVars, BATCH_JOBS, issued, sideVars>>

\* BATCH_JOBS[batch_id]["status"] = "completed"
BatchComplete(b) ==
    /\ workers[b].pc = "finish"
    /\ BATCH_JOBS' = [BATCH_JOBS EXCEPT ![b].status = "completed"]
    /\ workers' = [workers EXCEPT ![b].pc = "done"]
    /\ UNCHANGED <<store, now, cache_ret, hist, fetchVars, issued, sideVars>>

----------------------------------------------------------------------------
(* Single jobs (api.py): get_variant_impact_async, process_single_variant_task, *)
(* and the two status endpoints.                                               *)

\* The record of an id that is not a key of SINGLE_JOBS; error = "" stands
\* for a record without the key "error".
NoSingleJob == [status |-> "absent", result |-> PyNone, error |-> ""]
NoTask == [pc |-> "none", req |-> <<>>, result |-> PyNone]

\* What compute_variant_impact returns when it returns.
ImpactResult == PyVal("dict", "impact")

IssuedSingle == {j \in JobIds : SINGLE_JOBS[j] /= NoSingleJob}

\* POST /variant-impact-async: the record is created pending with result
\* None and the task scheduled.
get_variant_impact_async(req) ==
    /\ Cardinality(IssuedSingle) < MaxJobs
    /\ LET job_id == Cardinality(IssuedSingle) + 1 IN
       /\ SINGLE_JOBS' = [SINGLE_JOBS EXCEPT ![job_id] =
                            [status |-> "pending", result |-> PyNone, error |-> ""]]
       /\ tasks' = [tasks EXCEPT ![job_id] = [pc |-> "start", req |-> req, result |-> PyNone]]
       /\ issued' = [issued EXCEPT !.single = @ \cup {job_id}]
    /\ UNCHANGED <<store, now, cache_ret, hist, fetchVars, utilVars, BATCH_JOBS, workers, poll_ret>>

\* A task that starts computing without marking the job processing.
SingleBeginSkipsProcessing(j) ==
    /\ tasks[j].pc = "start"
    /\ tasks' = [tasks EXCEPT ![j].pc = "compute"]
    /\ UNCHANGED <<store, now, cache_ret, hist, fetchVars, utilVars, BATCH_JOBS, workers, SINGLE_JOBS,
                   issued, poll_ret>>

\* SINGLE_JOBS[job_id]["status"] = "processing"
SingleBegin(j) ==
    /\ tasks[j].pc = "start"
    /\ SINGLE_JOBS' = [SINGLE_JOBS EXCEPT ![j].status = "processing"]
    /\ tasks' = [tasks EXCEPT ![j].pc = "compute"]
    /\ UNCHANGED <<store, now, cache_ret, hist, fetchVars, utilVars, BATCH_JOBS, workers, issued, poll_ret>>

\* result = compute_variant_impact(...): it returns or raises.
SingleCompute(j, raises) ==
    /\ tasks[j].pc = "compute"
    /\ tasks' = [tasks EXCEPT ![j].pc = IF raises THEN "except" ELSE "store",
                              ![j].result = IF raises THEN PyNone ELSE ImpactResult]
    /\ UNCHANGED <<store, now, cache_ret, hist, fetchVars, utilVars, BATCH_JOBS, workers, SINGLE_JOBS,
                   issued, poll_ret>>

\* SINGLE_JOBS[job_id]["result"] = result
SingleStoreResult(j) ==
    /\ tasks[j].pc = "store"
    /\ SINGLE_JOBS' = [SINGLE_JOBS EXCEPT ![j].result = tasks[j].result]
    /\ tasks' = [tasks EXCEPT ![j].pc = "complete"]
    /\ UNCHANGED <<store, now, cache_ret, hist, fetchVars, utilVars, BATCH_JOBS, workers, issued, poll_ret>>

\* SINGLE_JOBS[job_id]["status"] = "completed"
SingleComplete(j) ==
    /\ tasks[j].pc = "complete"
    /\ SINGLE_JOBS' = [SINGLE_JOBS EXCEPT ![j].status = "completed"]
    /\ tasks' = [tasks EXCEPT ![j].pc = "done"]
    /\ UNCHANGED <<store, now, cache_ret, hist, fetchVars, utilVars, BATCH_JOBS, workers, issued, poll_ret>>

\* A handler that marks every job in flight failed, in both registries.
SingleFailMarksEveryJob(j) ==
    /\ tasks[j].pc = "except"
    /\ SINGLE_JOBS' = [i \in JobIds |->
                          IF SINGLE_JOBS[i] = NoSingleJob THEN NoSingleJob
                          ELSE [SINGLE_JOBS[i] EXCEPT !.status = "failed"]]
    /\ BATCH_JOBS' = [b \in JobIds |->
                         IF BATCH_JOBS[b] = NoJob THEN NoJob
                         ELSE [BATCH_JOBS[b] EXCEPT !.status = "failed"]]
    /\ tasks' = [tasks EXCEPT ![j].pc = "error"]
    /\ UNCHANGED <<store, now, cache_ret, hist, fetchVars, utilVars, workers, issued, poll_ret>>

\* except Exception as e: SINGLE_JOBS[job_id]["status"] = "failed"
SingleFail(j) ==
    /\ tasks[j].pc = "except"
    /\ SINGLE_JOBS' = [SINGLE_JOBS EXCEPT ![j].status = "failed"]
    /\ tasks' = [tasks EXCEPT ![j].pc = "error"]
    /\ UNCHANGED <<store, now, cache_ret, hist, fetchVars, utilVars, BATCH_JOBS, workers, issued, poll_ret>>

\* SINGLE_JOBS[job_id]["error"] = str(e)
SingleStoreError(j) ==
    /\ tasks[j].pc = "error"
    /\ SINGLE_JOBS' = [SINGLE_JOBS EXCEPT ![j].error = "str(e)"]
    /\ tasks' = [tasks EXCEPT ![j].pc = "done"]
    /\ UNCHANGED <<store, now, cache_ret, hist, fetchVars, utilVars, BATCH_JOBS, workers, issued, poll_ret>>

\* Ids a client can ask for: those the endpoints can hand out and one they
\* never hand out.
PollIds == 0..MaxJobs

NoPoll == [op |-> "none", id |-> 0, code |-> 0, status |-> "none"]
NotFound(op, id) == [op |-> op, id |-> id, code |-> 404, status |-> "none"]
Found(op, id, job) == [op |-> op, id |-> id, code |-> 200, status |-> job.status]

\* A status endpoint that answers an unknown id with an empty job.
get_job_status_with_default(job_id) ==
    /\ poll_ret' = IF job_id \notin IssuedSingle
                   THEN Found("get_job_status", job_id, NoSingleJob)
                   ELSE Found("get_job_status", job_id, SINGLE_JOBS[job_id])
    /\ UNCHANGED <<store, now, cache_ret, hist, fetchVars, utilVars, BATCH_JOBS, workers, SINGLE_JOBS,
                   tasks, issued>>

\* GET /job-status/{job_id}: 404 when job_id is not in SINGLE_JOBS, else the record.
get_job_status(job_id) ==
    /\ poll_ret' = IF job_id \notin IssuedSingle
                   THEN NotFound("get_job_status", job_id)
                   ELSE Found("get_job_status", job_id, SINGLE_JOBS[job_id])
    /\ UNCHANGED <<store, now, cache_ret, hist, fetchVars, utilVars, BATCH_JOBS, workers, SINGLE_JOBS,
                   tasks, issued>>

\* GET /batch-status/{batch_id}: 404 when batch_id is not in BATCH_JOBS, else the record.
get_batch_status(batch_id) ==
    /\ poll_ret' = IF batch_id \notin Issued
                   THEN NotFound("get_batch_status", batch_id)
                   ELSE Found("get_batch_status", batch_id, BATCH_JOBS[batch_id])
    /\ UNCHANGED <<store, now, cache_ret, hist, fetchVars, utilVars, BATCH_JOBS, workers, SINGLE_JOBS,
                   tasks, issued>>

----------------------------------------------------------------------------
(* retry_on_failure around any operation: one run, step by step. *)

\* The wrapper is built with 1..MaxAttempts attempts.
MaxAttempts == 3

\* The variables the utilities' runs leave alone.
appVars ==
    <<store, now, cache_ret, hist, fetchVars, BATCH_JOBS, workers, issued,
      SINGLE_JOBS, tasks, poll_ret, threadVars>>

\* What one invocation of the operation does: raise, return None, return an
\* empty list or string, return a value.
OpFailures == {"raise", "none"}
OpEmpties == {"empty_list", "empty_str"}
OpValue == PyVal("dict", "v")
OpResult(what) ==
    CASE what = "raise" -> Raised
      [] what = "none" -> Returned(PyNone)
      [] what = "empty_list" -> Returned(EmptyList)
      [] what = "empty_str" -> Returned(EmptyStr)
      [] OTHER -> Returned(OpValue)

\* The operation's behaviour: what its first invocations do, one entry each;
\* every later invocation returns the value.
Scripts == SeqsUpTo(OpFailures \cup OpEmpties, MaxAttempts + 1)

\* backoff values the decorators of this module are built with, as fractions.
Backoffs == {<<2, 1>>, <<3, 2>>}

\* delay * backoff, both fractions.
Times(x, y) == <<x[1] * y[1], x[2] * y[2]>>

NoRun ==
    [pc |-> "idle", n |-> 0, backoff |-> <<1, 1>>, script |-> <<>>, attempt |-> 0,
     delay |-> <<1, 1>>, invoked |-> 0, slept |-> <<>>, result |-> NoResult]

\* wrapper(*args, **kwargs) is entered: delay = backoff, attempt = 0.
RetryStart(n, backoff, script) ==
    /\ rw.pc = "idle"
    /\ rw' = [NoRun EXCEPT !.pc = "call", !.n = n, !.backoff = backoff,
                           !.script = script, !.delay = backoff]
    /\ UNCHANGED <<appVars, rl>>

\* result = func(*args, **kwargs) and what the loop does with it.
RetryInvoke ==
    /\ rw.pc = "call"
    /\ LET what == IF rw.invoked < Len(rw.script) THEN rw.script[rw.invoked + 1] ELSE "v"
           o == OpResult(what)
           next == WrapperNext(rw.attempt, rw.n, o)
       IN rw' = [rw EXCEPT
                   !.invoked = rw.invoked + 1,
                   !.pc = IF next = "sleep" THEN "sleep" ELSE "done",
                   !.result = CASE next = "return" -> Returned(o.v)
                                [] next = "raise" -> Raised
                                [] next = "sleep" -> NoResult
                                [] next = "exhausted" -> Returned(PyNone)]
    /\ UNCHANGED <<appVars, rl>>

\* A loop that sleeps and leaves delay as it is.
RetrySleepFixedDelay ==
    /\ rw.pc = "sleep"
    /\ rw' = [rw EXCEPT !.slept = Append(rw.slept, rw.delay),
                        !.attempt = rw.attempt + 1,
                        !.pc = "call"]
    /\ UNCHANGED <<appVars, rl>>

\* time.sleep(delay); delay *= backoff; the next pass of the loop.
RetrySleep ==
    /\ rw.pc = "sleep"
    /\ rw' = [rw EXCEPT !.slept = Append(rw.slept, rw.delay),
                        !.delay = Times(rw.delay, rw.backoff),
                        !.attempt = rw.attempt + 1,
                        !.pc = "call"]
    /\ UNCHANGED <<appVars, rl>>

----------------------------------------------------------------------------
(* rate_limit: one wrapper, called through by one thread, call after call. *)

\* @rate_limit(calls=3, period=1.0); time is counted in sixths of a second.
rl_calls == 3
rl_period == 6
min_interval == rl_period \div rl_calls

\* The clock stops advancing at MaxClock.
MaxClock == 14

\* last_call_time = 0.0 when the decorator is applied; time.time() is then
\* long past min_interval.  op_start, op_end and prev_end record when the
\* wrapped operation of the current call started and returned and when that
\* of the call before returned (-1: not yet).
NewLimiter ==
    [pc |-> "idle", t |-> rl_period, last_call_time |-> 0, wake |-> 0,
     op_start |-> -1, op_end |-> -1, prev_end |-> -1]

\* Time passes, whatever the thread is doing.
RlTick ==
    /\ rl.t < MaxClock
    /\ rl' = [rl EXCEPT !.t = rl.t + 1]
    /\ UNCHANGED <<appVars, rw>>

\* elapsed = time.time() - last_call_time; if elapsed < min_interval the
\* thread goes to sleep for min_interval - elapsed.
RlEnter ==
    /\ rl.pc = "idle"
    /\ LET elapsed == rl.t - rl.last_call_time IN
       rl' = IF elapsed < min_interval
             THEN [rl EXCEPT !.pc = "sleep", !.wake = rl.t + (min_interval - elapsed)]
             ELSE [rl EXCEPT !.pc = "call"]
    /\ UNCHANGED <<appVars, rw>>

\* time.sleep returns, no earlier than asked.
RlWake ==
    /\ rl.pc = "sleep"
    /\ rl.t >= rl.wake
    /\ rl' = [rl EXCEPT !.pc = "call"]
    /\ UNCHANGED <<appVars, rw>>

\* result = func(*args, **kwargs): the operation starts ...
RlOpStart ==
    /\ rl.pc = "call"
    /\ rl' = [rl EXCEPT !.pc = "run", !.op_start = rl.t]
    /\ UNCHANGED <<appVars, rw>>

\* ... and returns.
RlOpEnd ==
    /\ rl.pc = "run"
    /\ rl' = [rl EXCEPT !.pc = "stamp", !.op_end = rl.t]
    /\ UNCHANGED <<appVars, rw>>

\* A wrapper that notes the time before it runs the operation.
RlStampsStartTime ==
    /\ rl.pc = "stamp"
    /\ rl' = [rl EXCEPT !.pc = "idle", !.last_call_time = rl.op_start, !.prev_end = rl.op_end]
    /\ UNCHANGED <<appVars, rw>>

\* last_call_time = time.time(); return result
RlStamp ==
    /\ rl.pc = "stamp"
    /\ rl' = [rl EXCEPT !.pc = "idle", !.last_call_time = rl.t, !.prev_end = rl.op_end]
    /\ UNCHANGED <<appVars, rw>>

----------------------------------------------------------------------------
(* rate_limit with several pool threads calling the same wrapped function:
   FastAPI runs the synchronous endpoint get_related_data in its thread pool,
   so fetch_clinvar_variants is entered by as many threads as there are
   requests in flight.  last_call_time is one closure cell for all of them
   and the wrapper takes no lock. *)

MaxThreads == 2
Threads == 1..MaxThreads

\* op_start and op_end record when the thread's latest call of the wrapped
\* operation started and returned (-1: not yet, or still running).
NewThread == [pc |-> "idle", wake |-> 0, op_start |-> -1, op_end |-> -1]
NewSharedLimiter ==
    [t |-> rl_period, last_call_time |-> 0, th |-> [i \in Threads |-> NewThread]]

\* What the other variables do during a step of these threads.
rltRest ==
    <<store, now, cache_ret, hist, fetchVars, BATCH_JOBS, workers, issued,
      SINGLE_JOBS, tasks, poll_ret, rw, rl, vi, cw, lf, wa>>

\* Time passes, whatever the threads are doing.
RltTick ==
    /\ rlt.t < MaxClock
    /\ rlt' = [rlt EXCEPT !.t = rlt.t + 1]
    /\ UNCHANGED rltRest

\* elapsed = time.time() - last_call_time, read from the shared cell; if
\* elapsed < min_interval the thread goes to sleep for min_interval - elapsed.
RltEnter(i) ==
    /\ rlt.th[i].pc = "idle"
    /\ LET elapsed == rlt.t - rlt.last_call_time IN
       rlt' = IF elapsed < min_interval
              THEN [rlt EXCEPT !.th[i].pc = "sleep",
                               !.th[i].wake = rlt.t + (min_interval - elapsed)]
              ELSE [rlt EXCEPT !.th[i].pc = "call"]
    /\ UNCHANGED rltRest

\* time.sleep returns, no earlier than asked; last_call_time is not read again.
RltWake(i) ==
    /\ rlt.th[i].pc = "sleep"
    /\ rlt.t >= rlt.th[i].wake
    /\ rlt' = [rlt EXCEPT !.th[i].pc = "call"]
    /\ UNCHANGED rltRest

\* result = func(*args, **kwargs): the operation starts ...
RltOpStart(i) ==
    /\ rlt.th[i].pc = "call"
    /\ rlt' = [rlt EXCEPT !.th[i].pc = "run", !.th[i].op_start = rlt.t,
                          !.th[i].op_end = -1]
    /\ UNCHANGED rltRest

\* ... and returns.
RltOpEnd(i) ==
    /\ rlt.th[i].pc = "run"
    /\ rlt' = [rlt EXCEPT !.th[i].pc = "stamp", !.th[i].op_end = rlt.t]
    /\ UNCHANGED rltRest

\* last_call_time = time.time(), written to the shared cell; return result
RltStamp(i) ==
    /\ rlt.th[i].pc = "stamp"
    /\ rlt' = [rlt EXCEPT !.th[i].pc = "idle", !.last_call_time = rlt.t]
    /\ UNCHANGED rltRest

----------------------------------------------------------------------------
(* POST /variant-impact: get_variant_impact runs compute_variant_impact in
   the calling pool thread, so several requests run it side by side.  Each
   fetch function is taken by what it hands back and by whether it assigned
   fallback_used = True on the way; the statements between the fetches touch
   nothing the requests share. *)

MaxRequests == 2
Requests == 1..MaxRequests
Assemblies == {"GRCh38", "GRCh37", "hg19"}

\* The blocks of compute_variant_impact after the validation, in the order
\* they run, and the block holding the first assignment to the local
\* data_sources.
Blocks == <<"frequency", "conservation", "exons", "tissue", "summary">>
BlockIndex(blk) == CHOOSE i \in DOMAIN Blocks : Blocks[i] = blk
data_sources_assigned_in == "summary"

\* A local of a Python function has a value in a block only once a block
\* before it has assigned it.
LocalBound(assigned_in, blk) == BlockIndex(assigned_in) < BlockIndex(blk)

NoResponse == [status |-> 0, keys |-> {}, fallback_used |-> FALSE, detail |-> "none"]
ResultKeys ==
    {"variant_id", "metrics", "curve", "tracks", "gene", "tissue_effects",
     "background_distribution", "data_sources"}

\* own is what fallback_used would read had only this request's statements
\* written it.
NewRequest ==
    [pc |-> "idle", assembly |-> "GRCh38", own |-> FALSE, exc |-> "none",
     response |-> NoResponse]

\* What the other variables do during a step of a request.
viRest ==
    <<store, now, cache_ret, hist, stack, call, outcome, trace, calls, call0,
      BATCH_JOBS, workers, issued, SINGLE_JOBS, tasks, poll_ret, rw, rl, rlt, cw, lf, wa>>

\* A fetch function hands back a value or None; a value from the cache or
\* from the live service leaves the flag alone, a value from the fallback
\* dataset and every return of None come after fallback_used = True.
FetchReturns == {"value", "fallback_value", "none"}
SetsFlag(ret) == ret # "value"

\* compute_variant_impact without the two checks of the assembly: every
\* request goes on to its first fetch.
get_variant_impact_unvalidated(r, assembly) ==
    /\ vi[r].pc \in {"idle", "done"}
    /\ fallback_used' = FALSE
    /\ vi' = [vi EXCEPT ![r] =
                 [NewRequest EXCEPT !.pc = "frequency", !.assembly = assembly]]
    /\ UNCHANGED viRest

\* reset_fallback_flag() and the validation of the assembly.
get_variant_impact(r, assembly) ==
    /\ vi[r].pc \in {"idle", "done"}
    /\ fallback_used' = FALSE
    /\ vi' = [vi EXCEPT ![r] =
                 IF assembly \notin {"GRCh38", "GRCh37"} \/ assembly = "GRCh37"
                 THEN [NewRequest EXCEPT !.pc = "except", !.assembly = assembly,
                                         !.exc = "ValueError"]
                 ELSE [NewRequest EXCEPT !.pc = "frequency", !.assembly = assembly]]
    /\ UNCHANGED viRest

\* freq = fetch_gnomad_frequency(...); on None the MyVariant.info lookup, which
\* sets the flag on a hit, and the random frequency otherwise.
MyVariantHits == {"gnomad_genome", "gnomad_exome", "miss"}
ViFrequency(r, ret, mv) ==
    /\ vi[r].pc = "frequency"
    /\ LET sets == SetsFlag(ret) \/ (ret = "none" /\ mv # "miss") IN
       /\ fallback_used' = (fallback_used \/ sets)
       /\ vi' = [vi EXCEPT ![r].pc = "conservation", ![r].own = vi[r].own \/ sets]
    /\ UNCHANGED viRest

\* cons_scores = fetch_ucsc_phylop(...), synthetic scores on None.
ViConservation(r, ret) ==
    /\ vi[r].pc = "conservation"
    /\ fallback_used' = (fallback_used \/ SetsFlag(ret))
    /\ vi' = [vi EXCEPT ![r].pc = "exons", ![r].own = vi[r].own \/ SetsFlag(ret)]
    /\ UNCHANGED viRest

\* exons = fetch_gene_structure(...) or []
ViExons(r, ret) ==
    /\ vi[r].pc = "exons"
    /\ fallback_used' = (fallback_used \/ SetsFlag(ret))
    /\ vi' = [vi EXCEPT ![r].pc = "tissue", ![r].own = vi[r].own \/ SetsFlag(ret)]
    /\ UNCHANGED viRest

\* The try block of the tissue effects raises ValueError when GTEx has no
\* data and subscripts data_sources at its end; its handler subscripts
\* data_sources at its end as well.  What leaves the block: "none" or the
\* exception.
TissueBlock(ret) ==
    LET bound == LocalBound(data_sources_assigned_in, "tissue")
        in_try == IF ret = "none" THEN "ValueError"
                  ELSE IF ~bound THEN "UnboundLocalError"
                  ELSE "none"
    IN IF in_try = "none" THEN "none"
       ELSE IF ~bound THEN "UnboundLocalError"
       ELSE "none"

\* gtex_data = fetch_gtex_expression(gene_symbol) and the rest of the block.
ViTissue(r, ret) ==
    /\ vi[r].pc = "tissue"
    /\ fallback_used' = (fallback_used \/ SetsFlag(ret))
    /\ LET exc == TissueBlock(ret) IN
       vi' = [vi EXCEPT ![r].pc = IF exc = "none" THEN "summary" ELSE "except",
                        ![r].exc = exc,
                        ![r].own = vi[r].own \/ SetsFlag(ret)]
    /\ UNCHANGED viRest

\* The rest of compute_variant_impact builds the result, reading the flag
\* into its metrics, and the endpoint returns it; an exception on the way
\* becomes status 400 for ValueError and 500 for any other.
ViRespond(r) ==
    /\ vi[r].pc \in {"summary", "except"}
    /\ vi' = [vi EXCEPT ![r].pc = "done",
                        ![r].response =
                            IF vi[r].pc = "summary"
                            THEN [status |-> 200, keys |-> ResultKeys,
                                  fallback_used |-> fallback_used, detail |-> "none"]
                            ELSE IF vi[r].exc = "ValueError"
                            THEN [NoResponse EXCEPT !.status = 400, !.detail = vi[r].exc]
                            ELSE [NoResponse EXCEPT !.status = 500, !.detail = vi[r].exc]]
    /\ UNCHANGED <<fallback_used, viRest>>

----------------------------------------------------------------------------
(* One APICache written by a client that calls set on the same keys again
   and again, as the fetch functions do when an entry has expired. *)

\* The client makes at most MaxWrites calls of set.
MaxWrites == 3

WriteKeys == {PrefixGnomad \o Colon \o Variant1, PrefixEnsemblGene \o Colon \o Gene1}

\* Per key: how many sets were made, what the latest one passed and when, and
\* whether it replaced a row that held another value with another lifetime.
NoWrite == [n |-> 0, v |-> PyNone, at |-> 0, ttl |-> 0, over |-> FALSE]
NewWriter == [rows |-> {}, t |-> 0, last |-> [k \in WriteKeys |-> NoWrite]]

\* What the other variables do during a step of this client.
cwRest ==
    <<store, now, cache_ret, hist, fetchVars, BATCH_JOBS, workers, issued,
      SINGLE_JOBS, tasks, poll_ret, rw, rl, rlt, vi, lf, wa>>

Writes == cw.last[PrefixGnomad \o Colon \o Variant1].n
              + cw.last[PrefixEnsemblGene \o Colon \o Gene1].n

\* cache.set(key, data, ttl_hours)
CwSet(key, data, ttl_hours) ==
    /\ Writes < MaxWrites
    /\ LET ttl == IF ttl_hours /= NoTTL THEN ttl_hours ELSE default_ttl_hours IN
       cw' = [cw EXCEPT
                 !.rows = cache_set(cw.rows, cw.t, key, data, ttl_hours),
                 !.last[key] =
                     [n |-> cw.last[key].n + 1, v |-> data, at |-> cw.t, ttl |-> ttl,
                      over |-> \E r \in RowsOf(cw.rows, key) :
                                  /\ r.data /= json_dumps(data)
                                  /\ r.expires_at - r.created_at /= ttl]]
    /\ UNCHANGED cwRest

\* get(key, max_age_hours) as the client can call it: max_age_hours omitted
\* (None, written NoTTL here) or given in hours.
MaxAgeArgs == {NoTTL, 6}

\* APICache.get with its full signature.  The body reads key only: the row is
\* selected by cache_key and compared with expires_at; max_age_hours is
\* not used by any statement.
cache_get_max_age(rows, t, key, max_age_hours) == cache_get(rows, t, key)

\* The client reads: cache.get(key, max_age_hours=...).
CwGet(key, max_age_hours) ==
    /\ cache_ret' = CacheRet("get", key,
                             cache_get_max_age(cw.rows, cw.t, key, max_age_hours),
                             max_age_hours)
    /\ UNCHANGED <<store, now, hist, fetchVars, jobVars>>

\* Time passes.
CwTick(d) ==
    /\ cw.t + d <= MaxTime
    /\ cw' = [cw EXCEPT !.t = cw.t + d]
    /\ UNCHANGED cwRest

----------------------------------------------------------------------------
(* fetch_clinvar_variants and fetch_dbsnp_variants as they are decorated:
   @rate_limit(calls=3, period=1.0) around @retry_on_failure(retries=3,
   backoff=2.0) around the body.  One thread calls them one after another.
   Time is counted in sixths of a second, as for rl, and kept relative: for
   each limiter the time since its last_call_time, up to min_interval (the
   wrapper only asks whether it is less), and for a sleeping thread the time
   left to sleep.  The cache entries written during a run do not expire
   within it. *)

LimitedFns == {"fetch_clinvar_variants", "fetch_dbsnp_variants"}

Min(a, b) == IF a < b THEN a ELSE b
Max(a, b) == IF a > b THEN a ELSE b

\* Each application of rate_limit has its own last_call_time; it starts at
\* 0.0, long before the first call.  steps lists what the current call has
\* done so far: the limiter's check ("wait"), its sleep ("limiter_sleep"),
\* the events of each execution of the body, the sleeps of the retry loop
\* ("backoff"), and the limiter's write of last_call_time ("stamp").
NewLimitedFetch ==
    [pc |-> "idle", elapsed |-> [fn \in LimitedFns |-> min_interval],
     left |-> 0, rows |-> {}, fn |-> "none", force_live |-> FALSE,
     attempt |-> 0, delay |-> 0, steps |-> <<>>, result |-> NoResult]

\* What the other variables do during a step of this thread.
lfRest ==
    <<store, now, cache_ret, hist, stack, call, outcome, trace, calls, call0,
      BATCH_JOBS, workers, issued, SINGLE_JOBS, tasks, poll_ret, rw, rl, rlt, vi, cw, wa>>

\* A sixth of a second passes, whatever the thread is doing.
LfTick ==
    /\ lf' = [lf EXCEPT
                 !.elapsed = [fn \in LimitedFns |-> Min(lf.elapsed[fn] + 1, min_interval)],
                 !.left = Max(lf.left - 1, 0)]
    /\ UNCHANGED <<fallback_used, lfRest>>

\* The thread calls fn(Variant1, force_live=...): the limiter's wrapper runs
\* first, elapsed = time.time() - last_call_time, and sleeps if
\* elapsed < min_interval; the retry wrapper starts after it.
LfCall(fn, force_live) ==
    /\ lf.pc = "idle"
    /\ LET sleeps == lf.elapsed[fn] < min_interval IN
       lf' = [lf EXCEPT
                 !.fn = fn, !.force_live = force_live, !.attempt = 0,
                 !.delay = (backoff_num(fn) * rl_period) \div backoff_den(fn),
                 !.result = NoResult,
                 !.steps = IF sleeps THEN <<"wait", "limiter_sleep">> ELSE <<"wait">>,
                 !.left = IF sleeps THEN min_interval - lf.elapsed[fn] ELSE 0,
                 !.pc = IF sleeps THEN "limiter_sleep" ELSE "attempt"]
    /\ UNCHANGED <<fallback_used, lfRest>>

\* time.sleep(min_interval - elapsed) returns, no earlier than asked.
LfWake ==
    /\ lf.pc = "limiter_sleep"
    /\ lf.left = 0
    /\ lf' = [lf EXCEPT !.pc = "attempt"]
    /\ UNCHANGED <<fallback_used, lfRest>>

\* The retry wrapper's loop with the limiter's write of last_call_time
\* after every pass: the decorators applied in the other order.
LfAttemptLimitedPerPass(out) ==
    /\ lf.pc = "attempt"
    /\ out \in LiveOutcomesOf(lf.fn)
    /\ LET b == Body(lf.fn, Variant1, lf.force_live, out, "none", lf.rows, 0)
           next == WrapperNext(lf.attempt, retries(lf.fn), [kind |-> b.kind, v |-> b.v])
       IN /\ fallback_used' = b.flag
          /\ lf' = [lf EXCEPT
                      !.rows = b.rows,
                      !.steps = lf.steps \o [i \in DOMAIN b.ev |-> b.ev[i].e] \o <<"stamp">>,
                      !.elapsed[lf.fn] = 0,
                      !.left = IF next = "sleep" THEN lf.delay ELSE 0,
                      !.pc = IF next = "sleep" THEN "backoff" ELSE "idle",
                      !.result = CASE next = "return" -> Returned(b.v)
                                   [] next = "raise" -> Raised
                                   [] next = "sleep" -> NoResult
                                   [] next = "exhausted" -> Returned(PyNone)]
    /\ UNCHANGED lfRest

\* One pass of the retry wrapper's loop: result = func(*args, **kwargs), the
\* body with its cache probe and live request, and what the loop does with
\* the result.  A returned result goes back to the limiter's wrapper.
LfAttempt(out) ==
    /\ lf.pc = "attempt"
    /\ out \in LiveOutcomesOf(lf.fn)
    /\ LET b == Body(lf.fn, Variant1, lf.force_live, out, "none", lf.rows, 0)
           next == WrapperNext(lf.attempt, retries(lf.fn), [kind |-> b.kind, v |-> b.v])
       IN /\ fallback_used' = b.flag
          /\ lf' = [lf EXCEPT
                      !.rows = b.rows,
                      !.steps = lf.steps \o [i \in DOMAIN b.ev |-> b.ev[i].e],
                      !.left = IF next = "sleep" THEN lf.delay ELSE 0,
                      !.pc = CASE next = "sleep" -> "backoff"
                               [] next = "raise" -> "idle"
                               [] OTHER -> "stamp",
                      !.result = CASE next = "return" -> Returned(b.v)
                                   [] next = "raise" -> Raised
                                   [] next = "sleep" -> NoResult
                                   [] next = "exhausted" -> Returned(PyNone)]
    /\ UNCHANGED lfRest

\* time.sleep(delay) of the retry loop returns; delay *= backoff.
LfBackoff ==
    /\ lf.pc = "backoff"
    /\ lf.left = 0
    /\ lf' = [lf EXCEPT !.pc = "attempt", !.attempt = lf.attempt + 1,
                        !.delay = (lf.delay * backoff_num(lf.fn)) \div backoff_den(lf.fn),
                        !.steps = Append(lf.steps, "backoff")]
    /\ UNCHANGED <<fallback_used, lfRest>>

\* last_call_time = time.time(); return result
LfStamp ==
    /\ lf.pc = "stamp"
    /\ lf' = [lf EXCEPT !.pc = "idle", !.elapsed[lf.fn] = 0,
                        !.steps = Append(lf.steps, "stamp")]
    /\ UNCHANGED <<fallback_used, lfRest>>

----------------------------------------------------------------------------
(* The two background workers given the same VariantRequest: what each
   passes to compute_variant_impact and what it records.  The upstreams
   behave the same for both. *)

\* compute_variant_impact(chrom, pos, ref, alt, assembly="GRCh38",
\* window_size=100, force_live=False)
default_assembly == "GRCh38"
default_window_size == 100
DefaultArgs ==
    [assembly |-> default_assembly, window_size |-> default_window_size,
     force_live |-> FALSE]

\* The fields of a VariantRequest beside the variant itself.
WindowSizes == {default_window_size, 50}
JobInputs == [assembly : Assemblies, window_size : WindowSizes, force_live : BOOLEAN]

\* process_single_variant_task: compute_variant_impact(req.chrom, req.pos,
\* req.ref, req.alt, req.assembly, req.window_size, force_live=req.force_live)
SingleTaskArgs(req) ==
    [assembly |-> req.assembly, window_size |-> req.window_size,
     force_live |-> req.force_live]

\* process_batch_task: compute_variant_impact(v.chrom, v.pos, v.ref, v.alt,
\* force_live=False) -- assembly and window_size take their defaults.
BatchTaskArgs(v) == [DefaultArgs EXCEPT !.force_live = FALSE]

\* The exception a call of compute_variant_impact ends with, "none" when it
\* returns: the validation of the assembly, then the blocks up to the
\* tissue effects, where ret is what fetch_gtex_expression handed back.
ComputeRaises(args, ret) ==
    IF args.assembly \notin {"GRCh38", "GRCh37"} \/ args.assembly = "GRCh37"
    THEN "ValueError"
    ELSE TissueBlock(ret)

NotRun == [ran |-> FALSE, args |-> DefaultArgs, status |-> "pending", error |-> "none"]
NewPair ==
    [pc |-> "idle", input |-> DefaultArgs, ret |-> "value",
     single |-> NotRun, batch |-> NotRun]

\* What the other variables do during a step of these workers.
waRest ==
    <<store, now, cache_ret, hist, fetchVars, BATCH_JOBS, workers, issued,
      SINGLE_JOBS, tasks, poll_ret, rw, rl, rlt, vi, cw, lf>>

\* The same input is posted to /variant-impact-async and, as the one item
\* of a batch, to /batch-start.
WaSubmit(input, ret) ==
    /\ wa.pc = "idle" \/ (wa.single.ran /\ wa.batch.ran)
    /\ wa' = [NewPair EXCEPT !.pc = "submitted", !.input = input, !.ret = ret]
    /\ UNCHANGED waRest

\* process_single_variant_task up to its terminal state.
WaSingleTask ==
    /\ wa.pc = "submitted"
    /\ ~wa.single.ran
    /\ LET args == SingleTaskArgs(wa.input)
           exc == ComputeRaises(args, wa.ret)
       IN wa' = [wa EXCEPT !.single =
                    [ran |-> TRUE, args |-> args,
                     status |-> IF exc = "none" THEN "completed" ELSE "failed",
                     error |-> exc]]
    /\ UNCHANGED waRest

\* One pass of the loop of process_batch_task: the entry it appends.
WaBatchItem ==
    /\ wa.pc = "submitted"
    /\ ~wa.batch.ran
    /\ LET args == BatchTaskArgs(wa.input)
           exc == ComputeRaises(args, wa.ret)
       IN wa' = [wa EXCEPT !.batch =
                    [ran |-> TRUE, args |-> args,
                     status |-> IF exc = "none" THEN "success" ELSE "failed",
                     error |-> exc]]
    /\ UNCHANGED waRest

----------------------------------------------------------------------------
(* Specifications. *)

vars == <<store, now, cache_ret, hist, fetchVars, jobVars>>

Init ==
    /\ store = {}
    /\ now = 0
    /\ cache_ret = CacheRet("none", <<>>, PyNone, 0)
    /\ hist = [k \in CacheKeys |-> NoHist]
    /\ fallback_used = FALSE
    /\ stack = <<>>
    /\ call = NoCall
    /\ outcome = NoResult
    /\ trace = <<>>
    /\ calls = 0
    /\ call0 = [rows |-> {}, flag |-> FALSE]
    /\ BATCH_JOBS = [b \in JobIds |-> NoJob]
    /\ workers = [b \in JobIds |-> NoWorker]
    /\ SINGLE_JOBS = [j \in JobIds |-> NoSingleJob]
    /\ tasks = [j \in JobIds |-> NoTask]
    /\ issued = [batch |-> {}, single |-> {}]
    /\ poll_ret = NoPoll
    /\ rw = NoRun
    /\ rl = NewLimiter
    /\ rlt = NewSharedLimiter
    /\ cw = NewWriter
    /\ lf = NewLimitedFetch
    /\ wa = NewPair
    /\ vi = [r \in Requests |-> NewRequest]

\* The fetch functions called one after another by one client, the backing
\* store working.
Next ==
    \/ \E fn \in FetchFns : \E arg \in ArgsOf(fn), force_live \in BOOLEAN :
          Call(fn, arg, force_live)
    \/ \E out \in LiveOutcomes : Attempt(out, "none")
    \/ Sleep
    \/ ResetFallbackFlag
    \/ \E d \in ClockSteps : Tick(d)

Spec == Init /\ [][Next]_vars

\* The same with a backing store that can fail during any attempt.
NextStoreFail ==
    \/ \E fn \in FetchFns : \E arg \in ArgsOf(fn), force_live \in BOOLEAN :
          Call(fn, arg, force_live)
    \/ \E out \in LiveOutcomes, fault \in StoreFaults : Attempt(out, fault)
    \/ Sleep

SpecStoreFail == Init /\ [][NextStoreFail]_vars

\* The cache driven directly.
NextCache ==
    \/ \E k \in CacheKeys, v \in CacheValues, ttl \in TTLArgs : CacheSet(k, v, ttl)
    \/ \E k \in CacheKeys : CacheGet(k)
    \/ \E k \in CacheKeys : CacheInvalidate(k)
    \/ \E p \in LikePatterns : CacheInvalidatePattern(p)
    \/ CacheClearExpired
    \/ CacheClearAll
    \/ \E d \in ClockSteps : Tick(d)

SpecCache == Init /\ [][NextCache]_vars

\* Repeated writes of the same keys.
NextCacheWrites ==
    \/ \E k \in WriteKeys, v \in CacheValues, ttl \in TTLArgs : CwSet(k, v, ttl)
    \/ \E d \in ClockSteps : CwTick(d)

SpecCacheWrites == Init /\ [][NextCacheWrites]_vars

\* Repeated writes, and reads that pass a maximum age.
NextCacheAge ==
    \/ \E k \in WriteKeys, v \in CacheValues, ttl \in TTLArgs : CwSet(k, v, ttl)
    \/ \E d \in ClockSteps : CwTick(d)
    \/ \E k \in WriteKeys, h \in MaxAgeArgs : CwGet(k, h)

SpecCacheAge == Init /\ [][NextCacheAge]_vars

\* Batch jobs and their background tasks.
NextJobs ==
    \/ \E variants \in BatchRequests : start_batch(variants)
    \/ \E b \in JobIds : BatchBegin(b)
    \/ \E b \in JobIds, raises \in BOOLEAN : BatchItem(b, raises)
    \/ \E b \in JobIds : BatchStoreResults(b)
    \/ \E b \in JobIds : BatchComplete(b)

SpecJobs == Init /\ [][NextJobs]_vars

\* One run of a retry wrapper around a scripted operation.
NextRetry ==
    \/ \E n \in 1..MaxAttempts, backoff \in Backoffs, script \in Scripts :
          RetryStart(n, backoff, script)
    \/ RetryInvoke
    \/ RetrySleep

SpecRetry == Init /\ [][NextRetry]_vars

\* Sequential calls through one rate limiter.
NextLimiter ==
    \/ RlTick
    \/ RlEnter
    \/ RlWake
    \/ RlOpStart
    \/ RlOpEnd
    \/ RlStamp

SpecLimiter == Init /\ [][NextLimiter]_vars

\* Concurrent calls through one rate limiter.
NextLimiterThreads ==
    \/ RltTick
    \/ \E i \in Threads : RltEnter(i)
    \/ \E i \in Threads : RltWake(i)
    \/ \E i \in Threads : RltOpStart(i)
    \/ \E i \in Threads : RltOpEnd(i)
    \/ \E i \in Threads : RltStamp(i)

SpecLimiterThreads == Init /\ [][NextLimiterThreads]_vars

\* Requests to POST /variant-impact, served side by side.
NextImpact ==
    \/ \E r \in Requests, assembly \in Assemblies : get_variant_impact(r, assembly)
    \/ \E r \in Requests, ret \in FetchReturns, mv \in MyVariantHits : ViFrequency(r, ret, mv)
    \/ \E r \in Requests, ret \in FetchReturns : ViConservation(r, ret)
    \/ \E r \in Requests, ret \in FetchReturns : ViExons(r, ret)
    \/ \E r \in Requests, ret \in FetchReturns : ViTissue(r, ret)
    \/ \E r \in Requests : ViRespond(r)

SpecImpact == Init /\ [][NextImpact]_vars

\* Sequential calls of the rate-limited fetch functions.
NextLimitedFetch ==
    \/ LfTick
    \/ \E fn \in LimitedFns, force_live \in BOOLEAN : LfCall(fn, force_live)
    \/ LfWake
    \/ \E out \in LiveOutcomes : LfAttempt(out)
    \/ LfBackoff
    \/ LfStamp

SpecLimitedFetch == Init /\ [][NextLimitedFetch]_vars

\* One input through both workers.
NextWorkerArgs ==
    \/ \E input \in JobInputs, ret \in FetchReturns : WaSubmit(input, ret)
    \/ WaSingleTask
    \/ WaBatchItem

SpecWorkerArgs == Init /\ [][NextWorkerArgs]_vars

\* To run jobs of both kinds side by side the clients submit at most
\* MaxSubmits jobs in all, the batches of at most MaxShortBatch variants, and
\* every request names the same variant.
MaxSubmits == 2
MaxShortBatch == 1
ShortBatchRequests ==
    {q \in BatchRequests : Len(q) <= MaxShortBatch /\ \A i \in DOMAIN q : q[i] = Variant1}
Submitted == Cardinality(issued.batch) + Cardinality(issued.single)

\* One step of a job's background task.
BatchTaskStep(b) ==
    \/ BatchBegin(b)
    \/ \E raises \in BOOLEAN : BatchItem(b, raises)
    \/ BatchStoreResults(b)
    \/ BatchComplete(b)
SingleTaskStep(j) ==
    \/ SingleBegin(j)
    \/ \E raises \in BOOLEAN : SingleCompute(j, raises)
    \/ SingleStoreResult(j)
    \/ SingleComplete(j)
    \/ SingleFail(j)
    \/ SingleStoreError(j)

\* Single and batch jobs with clients polling.
NextLifecycle ==
    \/ Submitted < MaxSubmits /\ \E variants \in ShortBatchRequests : start_batch(variants)
    \/ Submitted < MaxSubmits /\ get_variant_impact_async(Variant1)
    \/ \E b \in JobIds : BatchTaskStep(b)
    \/ \E j \in JobIds : SingleTaskStep(j)
    \/ \E id \in PollIds : get_job_status(id)
    \/ \E id \in PollIds : get_batch_status(id)

SpecLifecycle == Init /\ [][NextLifecycle]_vars

\* The jobs without the polls, which change nothing a task reads.  The
\* thread pool runs every scheduled task for as long as it has a step to
\* take, and a call of compute_variant_impact returns or raises.
NextTasks ==
    \/ Submitted < MaxSubmits /\ \E variants \in ShortBatchRequests : start_batch(variants)
    \/ Submitted < MaxSubmits /\ get_variant_impact_async(Variant1)
    \/ \E b \in JobIds : BatchTaskStep(b)
    \/ \E j \in JobIds : SingleTaskStep(j)

SpecTasksFair ==
    /\ Init
    /\ [][NextTasks]_vars
    /\ \A b \in JobIds : WF_vars(BatchTaskStep(b))
    /\ \A j \in JobIds : WF_vars(SingleTaskStep(j))

----------------------------------------------------------------------------
(* Properties of the cache store, checked under SpecCache. *)

\* What the history of sets and deletions says get(k) returns now.
ExpectedGet(k) ==
    IF hist[k].set /\ ~hist[k].deleted /\ now <= hist[k].t + hist[k].ttl
    THEN hist[k].v ELSE PyNone

\* C1: get(k) returns v exactly when the most recent set of k wrote v, k has
\* not been deleted since, and the current time is at most that set's time
\* plus its ttl (the given one, else the default); otherwise it returns None.
C1_GetReturnsLatestUnexpiredSet ==
    \A k \in CacheKeys : cache_get(store, now, k) = ExpectedGet(k)

\* A get that returned None for a key that was set, never deleted, and whose
\* ttl has elapsed.
C1_Witness ==
    /\ cache_ret.op = "get"
    /\ cache_ret.value = PyNone
    /\ hist[cache_ret.arg].set
    /\ ~hist[cache_ret.arg].deleted
    /\ now > hist[cache_ret.arg].t + hist[cache_ret.arg].ttl

----------------------------------------------------------------------------
(* Properties of the source chain, checked under Spec and SpecStoreFail. *)

\* The events of the current call with a given name.
EventsOf(e) == {i \in DOMAIN trace : trace[i].e = e}

\* The step is one execution of the innermost function's body.
AttemptStep == stack /= <<>> /\ Top(stack).pc = "attempt" /\ trace' /= trace
NewEvents == SubSeq(trace', Len(trace) + 1, Len(trace'))
TopKey == cache_key(Top(stack).fn, Top(stack).arg)

\* C2: a fetch called with force_live=True never returns a value that comes
\* from the static fallback dataset, whatever calls went before.
C2_ForceLiveNeverReturnsFallbackValue ==
    (stack = <<>> /\ call.force_live /\ outcome.kind = "value")
        => outcome.v.v /= "fallback"

\* C3: with force_live=False the static fallback is read, and its value
\* returned, only after the live request failed as many times as the
\* function's retry count.
C3_FallbackOnlyAfterAllLiveAttempts ==
    \A i \in EventsOf("fallback_read") :
        Cardinality({j \in EventsOf("live_fail") : j < i /\ trace[j].fn = trace[i].fn})
            >= retries(trace[i].fn)

\* C4: an execution of a function body that finds an unexpired entry under
\* its key does nothing but the probe, the call returns the cached value, and
\* neither the cache nor the fallback flag changes -- for every function and
\* either force_live.
C4_HitStep ==
    (AttemptStep /\ cache_get(store, now, TopKey) /= PyNone)
        => /\ NewEvents = <<Ev("cache_hit", Top(stack).fn)>>
           /\ stack' = <<>>
           /\ outcome' = Returned(cache_get(store, now, TopKey))
           /\ store' = store
           /\ fallback_used' = fallback_used
C4_CacheHitReturnsCachedWithoutLiveCall == [][C4_HitStep]_vars

\* A force_live call answered from the cache by its first body execution.
C4_Witness ==
    /\ stack = <<>>
    /\ call.force_live
    /\ trace = <<Ev("cache_hit", call.fn)>>
    /\ outcome = Returned(cache_get(store, now, cache_key(call.fn, call.arg)))

\* The values the function's live path can produce.
LiveValues(fn) == {LiveResult(fn, out) : out \in LiveOutcomesOf(fn)} \ {PyNone}

\* C5 (the write): a body execution whose live request succeeds after a miss
\* stores the value under the key with the default TTL and the call returns it.
C5_LiveStep ==
    (AttemptStep /\ Len(NewEvents) >= 2 /\ NewEvents[2].e = "live_ok")
        => LET row == fetchone(store', TopKey) IN
           /\ row /= NoRow
           /\ row.created_at = now
           /\ row.expires_at = now + default_ttl_hours
           /\ json_loads(row.data) \in LiveValues(Top(stack).fn)
           /\ outcome' = Returned(json_loads(row.data))
           /\ stack' = <<>>

\* C5 (the keeping): no step of the source chain removes or replaces a row
\* whose expiry time has not passed.
C5_RowKept == \A r \in store : now' <= r.expires_at => r \in store'

\* C5: a live success is cached under the key and returned, the row stays
\* while its TTL has not elapsed, and a fetch that finds it returns its value
\* without a live request.
C5_LiveSuccessCachedAndReused == [][C5_LiveStep /\ C5_RowKept /\ C4_HitStep]_vars

\* A second call answered from the row an earlier call's live success wrote,
\* some hours after the write.
C5_Witness ==
    /\ stack = <<>>
    /\ calls = 2
    /\ trace = <<Ev("cache_hit", call.fn)>>
    /\ outcome.v \in LiveValues(call.fn)
    /\ fetchone(store, cache_key(call.fn, call.arg)).created_at < now

\* The current call is made with force_live=True and nothing it has done so
\* far found a cached entry or got a live answer.
ForceLiveAllFailed ==
    /\ call.force_live
    /\ trace /= <<>>
    /\ EventsOf("cache_hit") = {}
    /\ EventsOf("live_ok") = {}

\* C6: a force_live=True call that misses the cache and whose live requests
\* all fail reads no static fallback, calls no other source, leaves the cache
\* as it found it, and returns the absent result (None, or the function's
\* empty list or string).
C6_ForceLiveFailureReturnsAbsent ==
    ForceLiveAllFailed
        => /\ \A i \in DOMAIN trace :
                /\ trace[i].e \in {"cache_miss", "live_fail", "sleep"}
                /\ trace[i].fn = call.fn
           /\ store = call0.rows
           /\ stack = <<>> => outcome = Returned(FailureResult(call.fn))

\* A force_live call, for an identity the fallback dataset holds, that ended
\* absent after three failed live requests.
C6_Witness ==
    /\ ForceLiveAllFailed
    /\ stack = <<>>
    /\ call.fn \in DatasetFns
    /\ call.arg \in DatasetEntries
    /\ Cardinality(EventsOf("live_fail")) = retries(call.fn)
    /\ outcome = Returned(PyNone)

\* The value the function's fallback file holds for an identity it lists.
DatasetValue(fn) == PyVal(value_type(fn), "fallback")

\* C7: when a function with a fallback file misses the cache, its live
\* request fails, force_live is False and the file lists the identity, the
\* call returns the file's value, the fallback flag becomes true, and the
\* value is stored under the key so that the next body execution, with either
\* force_live, is a cache hit.
C7_FallbackStep ==
    (/\ AttemptStep
     /\ ~Top(stack).force_live
     /\ Top(stack).fn \in DatasetFns
     /\ Top(stack).arg \in DatasetEntries
     /\ Len(NewEvents) >= 2
     /\ NewEvents[2].e = "live_fail")
        => LET fn == Top(stack).fn
               arg == Top(stack).arg
           IN /\ outcome' = Returned(DatasetValue(fn))
              /\ stack' = <<>>
              /\ fallback_used'
              /\ cache_get(store', now', cache_key(fn, arg)) = DatasetValue(fn)
              /\ \A fl \in BOOLEAN, out \in LiveOutcomesOf(fn) :
                    Body(fn, arg, fl, out, "none", store', now').ev = <<Ev("cache_hit", fn)>>
C8_StoreFailureRaisedAtOnce ==
    \A i \in EventsOf("store_error") :
        /\ i = Len(trace)
        /\ stack = <<>>
        /\ outcome = Raised

\* C9: no call of a retry-decorated function raises to its caller, whatever
\* the upstream does: it returns a value or the absent result.
C9_UpstreamFailureNeverRaises ==
    /\ outcome.kind /= "raise"
    /\ (stack = <<>> /\ call /= NoCall) => outcome.kind = "value"

\* A call without force_live, for an identity no fallback file lists, that
\* returned None after its live requests failed.
C9_Witness ==
    /\ stack = <<>>
    /\ ~call.force_live
    /\ call.arg \notin DatasetEntries
    /\ EventsOf("live_fail") /= {}
    /\ outcome = Returned(PyNone)

----------------------------------------------------------------------------
(* Properties of batch jobs, checked under SpecJobs. *)

\* C10: whatever items raise, the task runs through all n inputs and ends
\* with the job completed, never failed: total = processed = n, and results
\* holds n entries in input order, entry i being the failed entry exactly
\* when item i raised.
C10_BatchCompletesDespiteRaisingItems ==
    \A b \in JobIds :
        LET w == workers[b]
            job == BATCH_JOBS[b]
            n == Len(w.variants)
        IN /\ job.status /= "failed"
           /\ w.pc \in {"start", "loop", "finish"}
                => ENABLED (\/ BatchBegin(b)
                            \/ \E raises \in BOOLEAN : BatchItem(b, raises)
                            \/ BatchStoreResults(b)
                            \/ BatchComplete(b))
           /\ w.pc = "loop" => job.processed = Len(w.raised)
           /\ w.pc = "done"
                => /\ job.status = "completed"
                   /\ job.total = n
                   /\ job.processed = n
                   /\ Len(job.results) = n
                   /\ \A i \in 1..n :
                        /\ job.results[i].variant_id = w.variants[i]
                        /\ job.results[i].status = "failed" <=> w.raised[i]
                        /\ job.results[i].status = "success" <=> ~w.raised[i]

\* A finished batch in which an item raised and the item after it succeeded.
C10_Witness ==
    \E b \in JobIds :
        /\ workers[b].pc = "done"
        /\ BATCH_JOBS[b].status = "completed"
        /\ \E i \in 1..(Len(workers[b].variants) - 1) :
              /\ workers[b].raised[i]
              /\ BATCH_JOBS[b].results[i].status = "failed"
              /\ BATCH_JOBS[b].results[i + 1].status = "success"

\* C11: in every state a poll can observe, the job record's results list
\* holds as many entries as processed counts.
C11_ResultsLengthEqualsProcessed ==
    \A b \in JobIds : Len(BATCH_JOBS[b].results) = BATCH_JOBS[b].processed

\* C12: for every batch job 0 <= processed <= total and the length of
\* results is at most total, before and after every step, and no step
\* lowers processed or changes total.
C12_Bounds(job) ==
    /\ 0 <= job.processed
    /\ job.processed <= job.total
    /\ Len(job.results) <= job.total
C12_Step ==
    \A b \in JobIds :
        /\ C12_Bounds(BATCH_JOBS[b])
        /\ C12_Bounds(BATCH_JOBS'[b])
        /\ BATCH_JOBS[b] /= NoJob
             => /\ BATCH_JOBS'[b].processed >= BATCH_JOBS[b].processed
                /\ BATCH_JOBS'[b].total = BATCH_JOBS[b].total
C12_ProcessedBoundedAndMonotonic == [][C12_Step]_vars

\* A running batch with some but not all of its items processed.
C12_Witness ==
    \E b \in JobIds :
        /\ BATCH_JOBS[b].status = "processing"
        /\ 0 < BATCH_JOBS[b].processed
        /\ BATCH_JOBS[b].processed < BATCH_JOBS[b].total

----------------------------------------------------------------------------
(* Properties of the job registry as a whole, checked under SpecLifecycle *)
(* and SpecTasksFair.                                                    *)

\* The moves a job record's status may make in one step.
StatusMoves ==
    { <<"absent", "pending">>, <<"pending", "processing">>,
      <<"processing", "completed">>, <<"processing", "failed">> }
StatusMoveAllowed(a, b) == a = b \/ <<a, b>> \in StatusMoves

\* C13: every job record, single or batch, is created pending, and each step
\* leaves its status alone or moves it pending -> processing, processing ->
\* completed or processing -> failed; completed and failed are never left.
C13_Step ==
    \A id \in JobIds :
        /\ StatusMoveAllowed(BATCH_JOBS[id].status, BATCH_JOBS'[id].status)
        /\ StatusMoveAllowed(SINGLE_JOBS[id].status, SINGLE_JOBS'[id].status)
C13_StatusOnlyMovesForward == [][C13_Step]_vars

\* A single job that failed next to a batch job that completed.
C13_Witness ==
    /\ \E j \in JobIds : SINGLE_JOBS[j].status = "failed" /\ tasks[j].pc = "done"
    /\ \E b \in JobIds : BATCH_JOBS[b].status = "completed"

\* C14: a single job's record never shows completed without its result nor
\* failed without its error.
C14_TerminalStateHasPayload ==
    \A j \in JobIds :
        /\ SINGLE_JOBS[j].status = "completed" => SINGLE_JOBS[j].result /= PyNone
        /\ SINGLE_JOBS[j].status = "failed" => SINGLE_JOBS[j].error /= ""

\* C15 (the answer): a poll answers 200 with the record's state when the id
\* was issued by the matching submit endpoint and 404 otherwise.
C15_PollStep ==
    poll_ret' /= poll_ret
        => LET r == poll_ret'
               ids == IF r.op = "get_batch_status" THEN issued.batch ELSE issued.single
               jobs == IF r.op = "get_batch_status" THEN BATCH_JOBS ELSE SINGLE_JOBS
           IN IF r.id \in ids
              THEN r.code = 200 /\ r.status = jobs[r.id].status /\ r.status /= "absent"
              ELSE r = NotFound(r.op, r.id)

\* C15 (no eviction): an issued id stays issued and keeps a record, from the
\* state its submit step leads to, whatever else is submitted or finishes.
C15_KeepStep ==
    /\ issued.batch \subseteq issued'.batch
    /\ issued.single \subseteq issued'.single
    /\ \A id \in issued'.batch : BATCH_JOBS'[id] /= NoJob
    /\ \A id \in issued'.single : SINGLE_JOBS'[id] /= NoSingleJob
    /\ \A id \in JobIds \ issued'.batch : BATCH_JOBS'[id] = NoJob
    /\ \A id \in JobIds \ issued'.single : SINGLE_JOBS'[id] = NoSingleJob

\* C15: a status poll returns a job record exactly when the id was issued
\* before by the matching submit endpoint, and not found otherwise; an issued
\* id resolves to its record for good.
C15_PollFindsExactlyIssuedIds == [][C15_PollStep /\ C15_KeepStep]_vars

\* A poll that found a finished batch job after a single job was submitted
\* and finished too.
C15_Witness ==
    /\ poll_ret.op = "get_batch_status"
    /\ poll_ret.code = 200
    /\ poll_ret.status = "completed"
    /\ \E j \in issued.single : tasks[j].pc = "done"

\* C16: with the thread pool running every scheduled task, every submitted
\* job, single or batch, an empty batch included, reaches completed or failed.
C16_EveryJobEnds ==
    \A id \in JobIds :
        /\ (BATCH_JOBS[id].status \in {"pending", "processing"})
              ~> (BATCH_JOBS[id].status \in {"completed", "failed"})
        /\ (SINGLE_JOBS[id].status \in {"pending", "processing"})
              ~> (SINGLE_JOBS[id].status \in {"completed", "failed"})

\* An empty batch that completed.
C16_Witness ==
    \E b \in JobIds :
        /\ BATCH_JOBS[b].total = 0
        /\ BATCH_JOBS[b].status = "completed"
        /\ workers[b].pc = "done"

----------------------------------------------------------------------------
(* Properties of the retry wrapper, checked under SpecRetry. *)

\* The operation fails (raises or returns None) on its first Len(script)
\* invocations and returns the value from then on.
FailsThenSucceeds ==
    rw.pc /= "idle" /\ \A i \in DOMAIN rw.script : rw.script[i] \in OpFailures

\* C17: around an operation that fails k times and then returns v, a wrapper
\* with n attempts invokes it k+1 times and returns v if k < n, and invokes
\* it n times and returns None, without raising, if k >= n; it never invokes
\* it more often.
C17_InvocationsAndResult ==
    FailsThenSucceeds
        => LET k == Len(rw.script)
               n == rw.n
           IN /\ rw.invoked <= (IF k < n THEN k + 1 ELSE n)
              /\ rw.pc = "done"
                   => IF k < n
                      THEN rw.invoked = k + 1 /\ rw.result = Returned(OpValue)
                      ELSE rw.invoked = n /\ rw.result = Returned(PyNone)

\* A wrapper with 3 attempts that returned the value at the third invocation,
\* after one raise and one None.
C17_Witness ==
    /\ FailsThenSucceeds
    /\ rw.pc = "done"
    /\ rw.n = 3
    /\ Len(rw.script) = 2
    /\ rw.script[1] /= rw.script[2]
    /\ rw.invoked = 3
    /\ rw.result = Returned(OpValue)

\* C18: a run never ends with an empty list or an empty string while
\* attempts remain: such a result counts as a failed attempt and is retried.
C18_EmptyResultIsRetried ==
    (rw.pc = "done" /\ rw.result.kind = "value" /\ rw.result.v \in {EmptyList, EmptyStr})
        => rw.invoked = rw.n

\* backoff to the power i, as a fraction.
RECURSIVE Pow(_, _)
Pow(x, i) == IF i = 1 THEN x ELSE Times(Pow(x, i - 1), x)

\* C19: the i-th sleep of a run lasts backoff to the power i (the first
\* lasts backoff, each later one the one before times backoff); every sleep
\* lies between a failed attempt and the next attempt, so a finished run has
\* slept once less than it invoked the operation, and a run that used up its
\* n attempts has slept n - 1 times.
C19_SleepsBetweenAttempts ==
    rw.pc /= "idle"
        => /\ \A i \in DOMAIN rw.slept : rw.slept[i] = Pow(rw.backoff, i)
           /\ rw.pc = "call" => Len(rw.slept) = rw.invoked
           /\ rw.pc = "sleep" => Len(rw.slept) = rw.invoked - 1 /\ rw.invoked < rw.n
           /\ rw.pc = "done" => Len(rw.slept) = rw.invoked - 1
           /\ (rw.pc = "done" /\ rw.invoked = rw.n) => Len(rw.slept) = rw.n - 1

\* A run with backoff 1.5 that used up 3 attempts: it slept 1.5 and 2.25
\* seconds and returned None.
C19_Witness ==
    /\ rw.pc = "done"
    /\ rw.n = 3
    /\ rw.invoked = 3
    /\ rw.slept = << <<3, 2>>, <<9, 4>> >>
    /\ rw.result = Returned(PyNone)

----------------------------------------------------------------------------
(* Properties of the rate limiter, checked under SpecLimiter. *)

\* C20: the operation of each call starts no earlier than min_interval after
\* the operation of the call before returned, and last_call_time is never
\* earlier than the return of the last operation that has been stamped: it is
\* written after the operation returns, not before it starts.
C20_SpacingFromCompletion ==
    /\ (rl.pc \in {"run", "stamp"} /\ rl.prev_end >= 0)
          => rl.op_start >= rl.prev_end + min_interval
    /\ rl.prev_end >= 0 => rl.last_call_time >= rl.prev_end
    /\ rl.pc = "run" => rl.last_call_time <= rl.op_start

\* A second call whose operation runs after the first call's operation took
\* time to return and the thread slept.
C20_Witness ==
    /\ rl.pc = "run"
    /\ rl.prev_end >= 0
    /\ rl.wake > rl.last_call_time
    /\ rl.last_call_time > rl_period
    /\ rl.op_start = rl.last_call_time + min_interval

----------------------------------------------------------------------------
(* Properties of the rate limiter under concurrent callers, checked under
   SpecLimiterThreads. *)

\* C21: with several threads calling the same rate-limited function at once
\* the spacing still holds in every interleaving: of the latest operations of
\* any two threads, the one that started first has returned, and the other
\* started at least min_interval after that return.
C21_SpacingHoldsAcrossThreads ==
    \A a, b \in Threads :
        (a # b /\ rlt.th[a].op_start >= 0 /\ rlt.th[b].op_start >= rlt.th[a].op_start)
            => /\ rlt.th[a].op_end >= 0
               /\ rlt.th[b].op_start >= rlt.th[a].op_end + min_interval

----------------------------------------------------------------------------
(* Properties of the fallback flag with requests served side by side,
   checked under SpecImpact. *)

\* C22: the fallback-used value a request reports reflects only that
\* request's own fetches: from its reset to its report the flag reads what
\* the request's own statements made it, whatever the other requests do, and
\* the value in a result's metrics is that value.
C22_FlagReflectsOwnFetchesOnly ==
    \A r \in Requests :
        /\ vi[r].pc \in {"frequency", "conservation", "exons", "tissue", "summary"}
              => fallback_used = vi[r].own
        /\ vi[r].response.status = 200 => vi[r].response.fallback_used = vi[r].own

----------------------------------------------------------------------------
(* Properties of the fallback flag for one caller, checked under Spec. *)

\* A call with trace tr and outcome o got its answer from a fallback file: it
\* read the file, found the identity and stored the value before returning it.
AnsweredFromFallback(tr, o) ==
    \E i \in DOMAIN tr :
        /\ tr[i].e = "fallback_read"
        /\ i + 1 \in DOMAIN tr
        /\ tr[i + 1].e = "cache_set"
        /\ o = Returned(DatasetValue(tr[i].fn))

\* The step that ends a call begun with the flag false.
C23_EndStep ==
    (AttemptStep /\ stack' = <<>> /\ ~call0.flag)
        => (fallback_used' <=> AnsweredFromFallback(trace', outcome'))

\* C23: after a reset the flag is true exactly when a fetch call obtained its
\* answer from a fallback tier: a call that started with the flag false
\* leaves it true if it answered from a fallback file, and false if it
\* answered from the cache or the live service or, with force_live, returned
\* the absent result without touching the fallback.
C23_FlagTrueIffFallbackAnswered == [][C23_EndStep]_vars

\* One step seen from the flag: only the reset, made between two calls, takes
\* it from true to false; an attempt of a fetch function keeps it true,
\* whatever the attempt found.
C24_Step ==
    /\ (fallback_used /\ ~fallback_used')
          => /\ stack = <<>>
             /\ UNCHANGED <<store, stack, call, outcome, trace, calls>>
    /\ (AttemptStep /\ fallback_used) => fallback_used'

\* C24: within one request the flag is false right after the reset and, once
\* a fetch has set it, stays true through every later fetch: a later live or
\* cached success never clears it.
C24_FlagMonotonicBetweenResets == [][C24_Step]_vars

\* A second call that got a live answer after the first call of the request
\* had set the flag.
C24_Witness ==
    /\ calls = 2
    /\ stack = <<>>
    /\ call0.flag
    /\ EventsOf("live_ok") /= {}
    /\ outcome.kind = "value"
    /\ outcome.v \in LiveValues(call.fn)
    /\ fallback_used

----------------------------------------------------------------------------
(* Properties of repeated writes, checked under SpecCacheWrites. *)

\* C25: the store holds at most one entry per key, and that entry is the one
\* the latest set wrote: get returns the latest value until the latest
\* lifetime is over, and the entry expires at the time of the latest set plus
\* the lifetime that set passed, whatever the sets before it passed.
C25_LatestSetReplacesEntry ==
    \A k \in WriteKeys :
        LET w == cw.last[k] IN
        /\ Cardinality(RowsOf(cw.rows, k)) = (IF w.n = 0 THEN 0 ELSE 1)
        /\ w.n > 0 =>
              /\ fetchone(cw.rows, k).expires_at = w.at + w.ttl
              /\ fetchone(cw.rows, k).created_at = w.at
              /\ cache_get(cw.rows, w.at, k) = w.v
              /\ cache_get(cw.rows, cw.t, k) = (IF cw.t > w.at + w.ttl THEN PyNone ELSE w.v)

\* A key set twice, the second time later, with another value and another
\* lifetime, and not yet expired.
C25_Witness ==
    \E k \in WriteKeys :
        /\ cw.last[k].n = 2
        /\ cw.last[k].over
        /\ cw.last[k].at > 0
        /\ cw.t > cw.last[k].at
        /\ cache_get(cw.rows, cw.t, k) = cw.last[k].v

----------------------------------------------------------------------------
(* Properties of the invalidation operations, checked under SpecCache. *)

\* A call of invalidate(key) that changed the store or followed another
\* operation.
C26_Step ==
    (cache_ret'.op = "invalidate" /\ <<store, cache_ret>>' /= <<store, cache_ret>>)
        => LET key == cache_ret'.arg IN
           /\ cache_get(store', now', key) = PyNone
           /\ RowsOf(store', key) = {}
           /\ \A k \in CacheKeys \ {key} : RowsOf(store', k) = RowsOf(store, k)
           /\ store' \subseteq store
           /\ RowsOf(store, key) = {} => store' = store

\* C26: after invalidate(key), get(key) returns absent even if the entry's
\* lifetime has not elapsed; every other key keeps its value and its expiry;
\* invalidating a key that has no entry changes nothing.
C26_InvalidateRemovesOnlyThatKey == [][C26_Step]_vars

\* invalidate has just removed an entry written in the same hour, and
\* another key still answers.
C26_Witness ==
    /\ cache_ret.op = "invalidate"
    /\ now = 0
    /\ hist[cache_ret.arg].deleted
    /\ cache_get(store, now, cache_ret.arg) = PyNone
    /\ \E k \in CacheKeys \ {cache_ret.arg} : cache_get(store, now, k) /= PyNone

\* The keys each pattern matches, worked out by hand from the rules of LIKE:
\* "gnomad:%" and "GNOMAD:%" match the two gnomAD keys, "%200%" the key of
\* the variant at position 200, "ensembl_gene:TT_" the Ensembl key, and
\* "gnomad" without a wildcard no key.
ExpectedMatches(p) ==
    CASE p = <<"g", "n", "o", "m", "a", "d", ":", "%">>
            -> {PrefixGnomad \o Colon \o Variant1, PrefixGnomad \o Colon \o Variant2}
      [] p = <<"G", "N", "O", "M", "A", "D", ":", "%">>
            -> {PrefixGnomad \o Colon \o Variant1, PrefixGnomad \o Colon \o Variant2}
      [] p = <<"%", "2", "0", "0", "%">>
            -> {PrefixGnomad \o Colon \o Variant2}
      [] p = <<"e", "n", "s", "e", "m", "b", "l", "_", "g", "e", "n", "e", ":", "T", "T", "_">>
            -> {PrefixEnsemblGene \o Colon \o Gene1}
      [] OTHER -> {}

\* A call of invalidate_pattern(pattern) that changed the store or followed
\* another operation.
C27_Step ==
    (cache_ret'.op = "invalidate_pattern" /\ <<store, cache_ret>>' /= <<store, cache_ret>>)
        => store' = {r \in store : r.cache_key \notin ExpectedMatches(cache_ret'.arg)}

\* C27: invalidate_pattern deletes exactly the entries whose key matches the
\* pattern and leaves every other entry as it was; with the two gnomAD keys
\* and the Ensembl key stored, the pattern "gnomad:%" removes exactly the
\* first two.
C27_PatternRemovesExactlyMatches == [][C27_Step]_vars

\* "gnomad:%" has just removed both gnomAD entries and the Ensembl entry is
\* still there.
C27_Witness ==
    /\ cache_ret.op = "invalidate_pattern"
    /\ cache_ret.arg = PrefixGnomad \o <<":", "%">>
    /\ hist[PrefixGnomad \o Colon \o Variant1].deleted
    /\ hist[PrefixGnomad \o Colon \o Variant2].deleted
    /\ RowsOf(store, PrefixEnsemblGene \o Colon \o Gene1) /= {}
    /\ Cardinality(store) = 1

\* A call of invalidate_pattern hands its caller the number of entries it
\* deleted.
C28_Step ==
    (cache_ret'.op = "invalidate_pattern" /\ <<store, cache_ret>>' /= <<store, cache_ret>>)
        => /\ cache_ret'.value = PyVal("int", "rowcount")
           /\ cache_ret'.n = Cardinality(store) - Cardinality(store')

\* C28: invalidate_pattern returns the number of entries it deleted.
C28_PatternReturnsDeletedCount == [][C28_Step]_vars

\* get reports the entry of row r absent at hour t and at every later hour.
GetAbsentFrom(r, t) ==
    \A u \in t..MaxTime : cache_get({r}, u, r.cache_key) = PyNone

\* Two tables answer every get alike, now and at every later hour.
SameGets(A, B) ==
    \A k \in CacheKeys, u \in now..MaxTime : cache_get(A, u, k) = cache_get(B, u, k)

\* The rows of the table whose entry get reports absent now and for good.
DeadRows == {r \in store : GetAbsentFrom(r, now)}

\* Table B is table A without some of those rows.
SweptVersion(A, B) ==
    /\ B \subseteq A
    /\ A \ B \subseteq DeadRows

\* C29: clear_expired is pure maintenance.  It removes only entries that get
\* already reports absent and adds none; a table from which calls of
\* clear_expired have removed such entries answers every get like the table
\* that was never swept; and this relation between the two tables survives
\* every operation applied to both (set, invalidate, invalidate_pattern,
\* clear_expired) and a further clear_expired applied to the swept one alone,
\* so calls of clear_expired inserted anywhere in a sequence of operations
\* change no result of get.
C29_ClearExpiredChangesNoGet ==
    LET swept == cache_clear_expired(store, now) IN
    /\ SweptVersion(store, swept)
    /\ \A D \in SUBSET DeadRows :
          LET B == store \ D IN
          /\ SameGets(store, B)
          /\ SweptVersion(store, cache_clear_expired(B, now))
          /\ SweptVersion(swept, cache_clear_expired(B, now))
          /\ \A k \in CacheKeys, v \in CacheValues, ttl \in TTLArgs :
                SweptVersion(cache_set(store, now, k, v, ttl), cache_set(B, now, k, v, ttl))
          /\ \A k \in CacheKeys :
                SweptVersion(cache_invalidate(store, k), cache_invalidate(B, k))
    /\ \A p \in LikePatterns :
          LET kept == cache_invalidate_pattern(store, p) IN
          \A D \in SUBSET DeadRows :
              SweptVersion(kept, cache_invalidate_pattern(store \ D, p))

\* clear_expired has just removed an expired entry and kept a live one.
C29_Witness ==
    /\ cache_ret.op = "clear_expired"
    /\ cache_ret.n >= 1
    /\ \E k \in CacheKeys : hist[k].deleted /\ RowsOf(store, k) = {}
    /\ \E k \in CacheKeys : cache_get(store, now, k) /= PyNone

----------------------------------------------------------------------------
(* Properties of POST /variant-impact, checked under SpecImpact. *)

\* C30: a request whose assembly is GRCh38 is answered with status 200 and a
\* result holding variant_id, metrics, curve and tracks, whatever each
\* upstream fetch returned.
C30_GRCh38RequestReturnsResult ==
    \A r \in Requests :
        (vi[r].pc = "done" /\ vi[r].assembly = "GRCh38")
            => /\ vi[r].response.status = 200
               /\ {"variant_id", "metrics", "curve", "tracks"} \subseteq vi[r].response.keys


----------------------------------------------------------------------------
(* C31: a request whose assembly is GRCh37, or any value other than GRCh38,
   is rejected by the validation at the top of compute_variant_impact: the
   ValueError leaves the function before the first fetch, the endpoint
   answers 400 with the message, and neither the request's own statements
   nor the cache have been written.  Checked on every step a rejected
   request takes. *)
C31_Step ==
    \A r \in Requests :
        (vi'[r] # vi[r] /\ vi'[r].assembly # "GRCh38") =>
            /\ vi'[r].pc \in {"except", "done"}
            /\ vi'[r].exc = "ValueError"
            /\ ~vi'[r].own
            /\ vi'[r].pc = "done" =>
                   /\ vi'[r].response.status = 400
                   /\ vi'[r].response.detail = "ValueError"
                   /\ vi'[r].response.keys = {}
            /\ <<store, hist>>' = <<store, hist>>
----------------------------------------------------------------------------
\* How often the step e occurs in the current call of the rate-limited
\* fetch, and how many executions of the body the call has made (each one
\* begins with the cache probe).
LfCount(e) == Cardinality({i \in DOMAIN lf.steps : lf.steps[i] = e})
LfPasses == LfCount("cache_hit") + LfCount("cache_miss")
LfEnded == lf.pc = "idle" /\ lf.steps # <<>>

(* C32: a call of fetch_clinvar_variants or fetch_dbsnp_variants that is
   answered from the cache does not sleep in the rate limiter and does not
   write the limiter's last_call_time. *)
C32_CacheHitBypassesLimiter ==
    (LfEnded /\ LfCount("cache_hit") > 0) =>
        /\ LfCount("limiter_sleep") = 0
        /\ LfCount("stamp") = 0

(* C33: for fetch_clinvar_variants and fetch_dbsnp_variants the limiter is
   outside the retry loop: a call makes the limiter's check once, before its
   first pass; every pass and every backoff sleep of the retry loop comes
   after that check and before the one write of last_call_time, which is the
   call's last step; a call makes between one pass and retries passes, with
   a backoff sleep between two passes. *)
C33_LimiterOnceAroundRetries ==
    lf.steps # <<>> =>
        /\ lf.steps[1] = "wait"
        /\ LfCount("wait") = 1
        /\ LfCount("limiter_sleep") <= 1
        /\ LfCount("limiter_sleep") = 1 => lf.steps[2] = "limiter_sleep"
        /\ LfPasses <= retries(lf.fn)
        /\ lf.pc = "attempt" => LfCount("backoff") = LfPasses
        /\ lf.pc \in {"backoff", "stamp"} => LfCount("backoff") = LfPasses - 1
        /\ lf.pc # "idle" => LfCount("stamp") = 0
        /\ lf.pc = "idle" =>
               /\ LfPasses >= 1
               /\ LfCount("backoff") = LfPasses - 1
               /\ LfCount("stamp") = 1
               /\ lf.steps[Len(lf.steps)] = "stamp"

C33_Witness ==
    /\ LfEnded
    /\ LfCount("limiter_sleep") = 1
    /\ LfPasses = retries(lf.fn)
    /\ LfCount("backoff") = 2
    /\ LfCount("live_fail") = 3
    /\ lf.result = Returned(PyNone)
    /\ lf.steps[Len(lf.steps)] = "stamp"

----------------------------------------------------------------------------
(* C34: a job's background task writes its own record and no other.  On
   every step, a record of BATCH_JOBS or SINGLE_JOBS that changes belongs to
   the one job whose task (or whose submit endpoint, when the record is
   created) took the step; every other record of both registries, with its
   state, result, error, processed count and results, is as it was, and so
   is every other task. *)
C34_Step ==
    /\ \A b \in JobIds :
           (BATCH_JOBS'[b] # BATCH_JOBS[b] \/ workers'[b] # workers[b]) =>
               /\ workers'[b] # workers[b]
               /\ \A c \in JobIds \ {b} :
                      BATCH_JOBS'[c] = BATCH_JOBS[c] /\ workers'[c] = workers[c]
               /\ SINGLE_JOBS' = SINGLE_JOBS
               /\ tasks' = tasks
    /\ \A j \in JobIds :
           (SINGLE_JOBS'[j] # SINGLE_JOBS[j] \/ tasks'[j] # tasks[j]) =>
               /\ tasks'[j] # tasks[j]
               /\ \A k \in JobIds \ {j} :
                      SINGLE_JOBS'[k] = SINGLE_JOBS[k] /\ tasks'[k] = tasks[k]
               /\ BATCH_JOBS' = BATCH_JOBS
               /\ workers' = workers
----------------------------------------------------------------------------
(* C35: get(key, max_age_hours=h) answers absent when the entry was created
   more than h hours ago, even if its expires_at has not been reached; with
   max_age_hours omitted the entry's own lifetime decides.  Checked on
   every read the client makes. *)
C35_Step ==
    (cache_ret' # cache_ret /\ cache_ret'.op = "get") =>
        LET row == fetchone(cw.rows, cache_ret'.arg)
            h == cache_ret'.n
        IN IF row = NoRow THEN cache_ret'.value = PyNone
           ELSE IF h # NoTTL /\ cw.t - row.created_at > h THEN cache_ret'.value = PyNone
           ELSE IF cw.t > row.expires_at THEN cache_ret'.value = PyNone
           ELSE cache_ret'.value = json_loads(row.data)
C35_GetHonoursMaxAge == [][C35_Step]_vars

----------------------------------------------------------------------------
\* How many live requests the current top-level call has sent to the
\* upstream of fn.
LiveCalls(fn) ==
    Cardinality({i \in DOMAIN trace : trace[i].fn = fn /\ trace[i].e \in {"live_ok", "live_fail"}})

(* C36: within one top-level fetch call each upstream is asked at most as
   often as the attempt count of its function: one fetch_gnomad_gene call
   asks gnomAD at most 2 times and, falling through to fetch_ensembl_gene,
   Ensembl at most 3 times. *)
C36_LiveCallsWithinAttemptCount ==
    \A fn \in FetchFns : LiveCalls(fn) <= retries(fn)

----------------------------------------------------------------------------
(* C37: when a request ends with fallback_used = False, every value its
   fetches returned came from a live upstream answer, of this request or
   cached from an earlier one; no value of a static fallback dataset is
   returned with the flag left False.  Checked on the step that ends a
   fetch call. *)
C37_EndStep ==
    (AttemptStep /\ stack' = <<>> /\ outcome'.kind = "value" /\ ~fallback_used')
        => \/ outcome'.v \in LiveValues(call.fn)
           \/ outcome'.v \in {PyNone, EmptyList, EmptyStr}
C37_UnflaggedValuesAreLive == [][C37_EndStep]_vars

----------------------------------------------------------------------------
(* C39: the cache is written only by a cache.set that follows a successful
   live answer or a matched entry of the static fallback data, with that
   value and under the key of the function that ran; and a fetch call that
   returns an absent or empty result without a successful live answer (all
   live attempts failed and no fallback entry matched, or force_live was
   set) ends with the cache exactly as it was when the call began. *)
C39_Step ==
    /\ store' # store =>
           /\ AttemptStep
           /\ LET fn == Top(stack).fn
                  sets == {i \in DOMAIN NewEvents : NewEvents[i].e = "cache_set"}
              IN /\ Cardinality(sets) = 1
                 /\ \A i \in sets :
                        /\ i > 1
                        /\ NewEvents[i - 1].e \in {"live_ok", "fallback_read"}
                        /\ NewEvents[i - 1].e = "live_ok" =>
                               cache_get(store', now, TopKey) \in LiveValues(fn)
                        /\ NewEvents[i - 1].e = "fallback_read" =>
                               cache_get(store', now, TopKey) = DatasetValue(fn)
                 /\ {r \in store' : r.cache_key # TopKey} = {r \in store : r.cache_key # TopKey}
    /\ (/\ AttemptStep
        /\ stack' = <<>>
        /\ outcome' \in {Returned(PyNone), Returned(EmptyList), Returned(EmptyStr)}
        /\ \A i \in DOMAIN trace' : trace'[i].e # "live_ok")
           => store' = call0.rows
C39_FailedFetchLeavesCache == [][C39_Step]_vars

\* A call that found entries in the cache, failed live on every attempt,
\* returned None, and left the entries as they were.
C39_Witness ==
    /\ stack = <<>>
    /\ outcome = Returned(PyNone)
    /\ ~call.force_live
    /\ Cardinality(EventsOf("live_fail")) = retries(call.fn)
    /\ EventsOf("live_ok") = {}
    /\ store # {}
    /\ store = call0.rows

----------------------------------------------------------------------------
(* C38: for the same input and the same upstream behaviour, the entry the
   batch worker records (success or failed) agrees with the terminal state
   of the single job (completed or failed), the batch worker having called
   compute_variant_impact with the same assembly, window_size and
   force_live as the single worker. *)
C38_BatchItemMatchesSingleJob ==
    (wa.single.ran /\ wa.batch.ran) =>
        /\ (wa.batch.status = "success") <=> (wa.single.status = "completed")
        /\ wa.batch.args = wa.single.args

====
